---- MODULE Spec2Model ----
(***************************************************************************)
(* Session orchestrator of browser-warmer (src/src/core/session.js).       *)
(*                                                                         *)
(* The model follows the JavaScript event loop at the granularity of the   *)
(* real suspension points: every action below is the code that runs        *)
(* between two awaits that give control back to the event loop (a          *)
(* navigation, a page evaluation, a sleep, the pause promise, the browser  *)
(* launch, the browser close).  The public methods initialize(), start(),  *)
(* pause(), resume() and stop() are called by the environment (the CLI,    *)
(* the SIGINT handler and the WebSocket command handler of index.js).      *)
(* The command handler's START and GOTO commands and the subscriptions of  *)
(* its clients (index.js) are modelled after the session.                  *)
(***************************************************************************)
EXTENDS Integers, Sequences, FiniteSets, TLC

\* ---------------------------------------------------------------- bounds
MaxSites    == 2    \* longest site queue Sites.getSites returns
MaxSearches == 2    \* largest config.behavior.searchCount
MaxInits    == 1    \* initialize() calls made by the environment
MaxLoops    == 1    \* start() calls that get past the state guard
MaxElapsed  == 1    \* longest run time of a session, in minutes
MaxRestarts == 1    \* START commands a remote client sends to a started session
MaxGotos    == 1    \* GOTO commands a remote client sends
MaxClients  == 1    \* connections to the command server
MaxRequestId == 2   \* largest requestId a client puts in a message
\* the longest category list of a sites file; the largest maxSites option
MaxList == 2
MaxCap == 2
\* next() calls on one random source between resets; reset() calls
MaxDraws == 3
MaxResets == 1
\* the largest config.timing.maxStay, in seconds; the longest iteration of
\* the stay loop
MaxStay == 3
MaxStep == 2

Loops == 1..MaxLoops

\* every start() call of a session: the first ones and the remote restarts
Slots == 1..(MaxLoops + MaxRestarts)

\* config.behavior.maxDepth, the default of utils/config.js
maxDepth == 2

\* BrowserController.goto: `options.retries || 3`, the session passes none
maxRetries == 3

\* ---------------------------------------------------------------- state
\* Sites is a singleton of the process: it may have been loaded before the
\* session is constructed.  searchCount stands for the effective count
\* (0 when config.behavior.searches is off).
VARIABLES
  state,        \* this.state
  shouldStop,   \* this._shouldStop
  isPaused,     \* this._isPaused
  pausePromise, \* this._pausePromise / this._pauseResolve: "null" | "pending"
  browser,      \* this.browser: "null" | "created" | "open" | "lost" | "closed"
  actions,      \* this.actions # null
  sitesLoaded,  \* Sites._sites # null (singleton of utils/sites.js)
  siteQueue,    \* this._siteQueue
  currentSite,  \* this._currentSite (0 = null)
  stats,        \* this.stats
  clock,        \* number of new Date() stamps taken so far
  elapsed,      \* minutes since stats.startTime was stamped
  cfg,          \* Config.get() and the sites file, fixed for the run
  pc,           \* pc[l]: where the l-th start() call is suspended
  idx,          \* idx[l]: loop variable i of _performSearches / _visitSites
  attempt,      \* attempt[l]: failed attempts of the goto the loop is in
  wait,         \* wait[l]: the pause promise the loop awaits
  initPc,       \* initialize(): "idle" | "launching"
  stopPc,       \* stop(): "idle" | "closing" | "closing_old"
  inits,        \* initialize() calls so far
  remote,       \* GOTO commands: how many were sent, how many are in flight;
                \* SCREENSHOT commands in flight
  clients,      \* command server: the connection and subscriptions of each client
  attached,     \* command server: this.session # null
  lib,          \* the objects of the utility modules (sites, random) in use
  inbox,        \* command server: the message received last and its sender
  last,         \* the last call or step: its name, result and emitted events
  hist          \* history: what has happened so far in the run

vars == <<state, shouldStop, isPaused, pausePromise, browser, actions,
          sitesLoaded, siteQueue, currentSite, stats, clock, elapsed, cfg,
          pc, idx, attempt, wait, initPc, stopPc, inits, remote, clients, attached, lib,
          inbox, last, hist>>

SessionState == {"idle", "starting", "running", "paused", "stopping",
                 "stopped", "error"}

\* stats.errors is kept as the number of entries of each type
NoErrors == [fatal |-> 0, navigation |-> 0, visit |-> 0, search |-> 0]

InitStats == [startTime |-> 0, endTime |-> 0, sitesVisited |-> 0,
              sitesSuccessful |-> 0, sitesFailed |-> 0,
              searchesPerformed |-> 0, pagesViewed |-> 0, errors |-> NoErrors]

\* the sites file and the config.session / config.behavior values the
\* session reads (maxDuration and breakInterval in minutes, 0 = off)
AllConfigs == [nSites : 0..MaxSites, searchCount : {0, MaxSearches},
               breakInterval : {0, 1}, maxPages : {0, 1},
               maxDuration : {0, MaxElapsed}]

\* the configurations explored: a run with a search warm-up is taken with
\* the page limit and the breaks switched off
Configs ==
  {c \in AllConfigs : c.searchCount > 0 => c.maxPages = 0 /\ c.breakInterval = 0}

Clients == 1..MaxClients

\* no entry in WebSocketHandler.clients
NoClient == [conn |-> "none", subs |-> {}]

\* no message received yet
NoMessage == [client |-> 0, kind |-> "none", command |-> "none", rid |-> 0,
              url |-> TRUE]

\* no utility object is being exercised
NoLib == [kind |-> "none"]

Did(op, ret, emits) == [op |-> op, ret |-> ret, emits |-> emits]

Emitted(e) == \E k \in 1..Len(last.emits) : last.emits[k] = e

\* every `this.state = X` is followed by emit('stateChange', X): the states
\* a step assigns, in order, are the payloads of its stateChange events
StateChange == [starting |-> "stateChange:starting",
                running |-> "stateChange:running",
                paused |-> "stateChange:paused",
                stopping |-> "stateChange:stopping",
                stopped |-> "stateChange:stopped",
                error |-> "stateChange:error"]

Assigned(ev) == CHOOSE st \in DOMAIN StateChange : StateChange[st] = ev

IsStateChange(ev) == \E st \in DOMAIN StateChange : StateChange[st] = ev

StatePath(from, emits) ==
  LET sc == SelectSeq(emits, IsStateChange)
  IN <<from>> \o [k \in 1..Len(sc) |-> Assigned(sc[k])]

\* captcha: some visit has returned at the CAPTCHA check (line 294)
InitHist == [stopCalled |-> FALSE, stopped |-> 0, disconnected |-> FALSE,
             captcha |-> FALSE]

InitSession ==
  /\ state = "idle"
  /\ shouldStop = FALSE
  /\ isPaused = FALSE
  /\ pausePromise = "null"
  /\ browser = "null"
  /\ actions = FALSE
  /\ sitesLoaded \in BOOLEAN
  /\ siteQueue = <<>>
  /\ currentSite = 0
  /\ stats = InitStats
  /\ clock = 0
  /\ elapsed = 0
  /\ cfg \in Configs
  /\ pc = [l \in Slots |-> "idle"]
  /\ idx = [l \in Slots |-> 0]
  /\ attempt = [l \in Slots |-> 0]
  /\ wait = [l \in Slots |-> "none"]
  /\ initPc = "idle"
  /\ stopPc = "idle"
  /\ inits = 0
  /\ remote = [sent |-> 0, flying |-> 0, shooting |-> 0]
  /\ clients = [c \in Clients |-> NoClient]
  /\ inbox = NoMessage
  /\ hist = InitHist

\* the session as run() creates it; the command server, when enabled, has
\* it attached before it listens (index.js lines 219-232)
Init ==
  /\ InitSession
  /\ attached = TRUE
  /\ lib = NoLib
  /\ last = Did("new", "ok", <<>>)

\* ------------------------------------------------------------- helpers

\* Sites.getSites(...) for the configured sites file: the destinations left
\* after category selection, dedupe, exclusion and the maxSites cap.
getSites(c) == [k \in 1..c.nSites |-> k]

\* an error handler that stamps endTime but records no entry
handleErrorStatsNoEntry(s, now) == [s EXCEPT !.endTime = now]

\* _handleError(error): the fields it assigns
handleErrorStats(s, now) ==
  [s EXCEPT !.endTime = now, !.errors.fatal = @ + 1]

\* catch block of _visitSite; nav tells whether BrowserController.goto gave
\* up (its navigationFailed event is recorded by the handler of initialize)
visitFailed(s, nav) ==
  [s EXCEPT !.sitesFailed = @ + 1,
            !.errors.navigation = @ + (IF nav THEN 1 ELSE 0),
            !.errors.visit = @ + 1]

\* a CAPTCHA that is not counted
visitCaptchaUncounted(s) == s

\* _visitSite lines 293-298: a CAPTCHA was found on the page
visitCaptcha(s) == [s EXCEPT !.sitesFailed = @ + 1]

\* a visit that views its pages but is not counted as successful
visitSucceededUncounted(s, pages) == [s EXCEPT !.pagesViewed = @ + pages]

\* _visitSite lines 317-322 (with the pages _followLinks counted, line 385)
visitSucceeded(s, pages) ==
  [s EXCEPT !.pagesViewed = @ + pages, !.sitesSuccessful = @ + 1]

\* getStats() line 541: ((sitesSuccessful / sitesVisited) * 100).toFixed(1)
\* + '%', or '0%' before the first visit.  toFixed(1) rounds to the nearest
\* tenth and always prints one decimal.
successRate(s) ==
  IF s.sitesVisited > 0
    THEN LET tenths == (2000 * s.sitesSuccessful + s.sitesVisited)
                         \div (2 * s.sitesVisited)
         IN ToString(tenths \div 10) \o "." \o ToString(tenths % 10) \o "%"
    ELSE "0%"

\* _formatDuration, lines 554-566
formatDuration(ms) ==
  LET seconds == ms \div 1000
      minutes == seconds \div 60
      hours == minutes \div 60
  IN IF hours > 0
       THEN ToString(hours) \o "h " \o ToString(minutes % 60) \o "m "
              \o ToString(seconds % 60) \o "s"
       ELSE IF minutes > 0
         THEN ToString(minutes) \o "m " \o ToString(seconds % 60) \o "s"
         ELSE ToString(seconds) \o "s"

\* getStats(), lines 532-549: the object returned.  The stamp getStats
\* takes is the next one of the clock, and stamps are read as milliseconds.
getStats ==
  LET now == clock + 1
      duration == IF stats.startTime # 0
                    THEN (IF stats.endTime # 0 THEN stats.endTime ELSE now)
                           - stats.startTime
                    ELSE 0
      derived == [duration |-> duration,
                  durationFormatted |-> formatDuration(duration),
                  successRate |-> successRate(stats),
                  state |-> state,
                  currentSite |-> currentSite,
                  remainingSites |-> Len(siteQueue) - stats.sitesVisited]
  IN [k \in DOMAIN stats \cup DOMAIN derived |->
        IF k \in DOMAIN derived THEN derived[k] ELSE stats[k]]

\* Releasing / orphaning the loops that await the pause promise
resolveWaits(w) == [l \in Slots |-> IF w[l] = "pending" THEN "released" ELSE w[l]]
orphanWaits(w)  == [l \in Slots |-> IF w[l] = "pending" THEN "orphaned" ELSE w[l]]

\* ------------------------------------------------------- initialize()

\* initialize() up to `await this.browser.launch()`.  Sites.load reads its
\* file synchronously; it throws on a sites file without categories.
InitializeCall(budget) ==
  /\ initPc = "idle"
  /\ inits < budget
  /\ inits' = inits + 1
  /\ \/ /\ state' = "starting"
        /\ sitesLoaded' = TRUE
        /\ browser' = "created"
        /\ initPc' = "launching"
        /\ stopPc' = IF stopPc = "closing" THEN "closing_old" ELSE stopPc
        /\ last' = Did("initialize", "pending", <<"stateChange:starting">>)
     \/ /\ state' = "error"
        /\ last' = Did("initialize", "throws",
                       <<"stateChange:starting", "stateChange:error", "error">>)
        /\ UNCHANGED <<sitesLoaded, browser, initPc, stopPc>>
  /\ UNCHANGED <<shouldStop, isPaused, pausePromise, actions, siteQueue,
                 currentSite, stats, clock, elapsed, cfg, pc, idx, attempt,
                 wait, remote, clients, attached, lib, inbox, hist>>

InitializeBegin == InitializeCall(MaxInits)

InitializeEnd ==
  /\ initPc = "launching"
  /\ initPc' = "idle"
  /\ \/ /\ browser' = "open"
        /\ actions' = TRUE
        /\ last' = Did("initialize", "true", <<"initialized">>)
        /\ UNCHANGED state
     \/ /\ state' = "error"
        /\ last' = Did("initialize", "throws", <<"stateChange:error", "error">>)
        /\ UNCHANGED <<browser, actions>>
  /\ UNCHANGED <<shouldStop, isPaused, pausePromise, sitesLoaded, siteQueue,
                 currentSite, stats, clock, elapsed, cfg, pc, idx, attempt,
                 wait, stopPc, inits, remote, clients, attached, lib, inbox, hist>>

\* ------------------------------------------------------------ start()

\* start() lines 123-129: the states the guard lets through (the inner
\* `state === IDLE` test sits inside `state !== IDLE`, so it never holds and
\* initialize() is never called from here)
StartGuard == state \in {"starting", "idle"}

\* the first loop slot not yet used by a start() call
FreeLoop(l) == pc[l] = "idle" /\ \A k \in Loops : k < l => pc[k] # "idle"

Start(l) ==
  /\ FreeLoop(l)
  /\ \/ /\ ~StartGuard
        /\ last' = Did("start", "throws:state", <<>>)
        /\ UNCHANGED <<state, siteQueue, stats, clock, elapsed, pc, idx>>
     \/ /\ StartGuard
        /\ ~sitesLoaded
        /\ last' = Did("start", "throws:sites", <<>>)
        /\ UNCHANGED <<state, siteQueue, stats, clock, elapsed, pc, idx>>
     \/ /\ StartGuard
        /\ sitesLoaded
        /\ siteQueue' = getSites(cfg)
        /\ IF Len(siteQueue') = 0
             THEN /\ last' = Did("start", "throws:empty", <<>>)
                  /\ UNCHANGED <<state, stats, clock, elapsed, pc, idx>>
             ELSE /\ state' = "running"
                  /\ clock' = clock + 1
                  /\ elapsed' = 0
                  /\ stats' = [stats EXCEPT !.startTime = clock']
                  /\ pc' = [pc EXCEPT ![l] = IF cfg.searchCount > 0
                                               THEN "s_top" ELSE "top"]
                  /\ idx' = [idx EXCEPT ![l] = 0]
                  /\ last' = Did("start", "pending",
                                 <<"stateChange:running", "started">>)
  /\ UNCHANGED <<shouldStop, isPaused, pausePromise, browser, actions,
                 sitesLoaded, currentSite, cfg, attempt, wait, initPc, stopPc,
                 inits, remote, clients, attached, lib, inbox, hist>>

\* ------------------------------------------------- pause() / resume()

\* a weaker guard than the code's: pause() accepted from paused as well
PauseGuardAlsoPaused == state \in {"running", "paused"}

PauseGuard == state = "running"

Pause ==
  /\ IF PauseGuard
       THEN /\ isPaused' = TRUE
            /\ pausePromise' = "pending"
            /\ wait' = orphanWaits(wait)
            /\ state' = "paused"
            /\ last' = Did("pause", "true", <<"stateChange:paused", "paused">>)
       ELSE /\ last' = Did("pause", "false", <<>>)
            /\ UNCHANGED <<isPaused, pausePromise, wait, state>>
  /\ UNCHANGED <<shouldStop, browser, actions, sitesLoaded, siteQueue,
                 currentSite, stats, clock, elapsed, cfg, pc, idx, attempt,
                 initPc, stopPc, inits, remote, clients, attached, lib, inbox, hist>>

ResumeGuard(st) == st = "paused"

Resume ==
  /\ IF ResumeGuard(state)
       THEN /\ isPaused' = FALSE
            /\ wait' = IF pausePromise = "pending"
                         THEN resolveWaits(wait) ELSE wait
            /\ pausePromise' = "null"
            /\ state' = "running"
            /\ last' = Did("resume", "true", <<"stateChange:running", "resumed">>)
       ELSE /\ last' = Did("resume", "false", <<>>)
            /\ UNCHANGED <<isPaused, pausePromise, wait, state>>
  /\ UNCHANGED <<shouldStop, browser, actions, sitesLoaded, siteQueue,
                 currentSite, stats, clock, elapsed, cfg, pc, idx, attempt,
                 initPc, stopPc, inits, remote, clients, attached, lib, inbox, hist>>

\* ------------------------------------------------------------- stop()

\* stop() line 501: the states in which stop() does its work
StopGuard == state \notin {"stopped", "stopping"}

\* BrowserController.close() awaits the browser's close only when the
\* controller holds a launched browser
CloseAwaits == browser \in {"open", "lost"}

StopCall ==
  \/ /\ ~StopGuard
     /\ last' = Did("stop", "noop", <<>>)
     /\ UNCHANGED <<state, shouldStop, isPaused, pausePromise, wait, stats,
                    clock, stopPc, hist>>
  \/ /\ StopGuard
     /\ stopPc = "idle"
     /\ shouldStop' = TRUE
     /\ LET resumed == isPaused /\ ResumeGuard("stopping")
            ev == <<"stateChange:stopping">> \o
                  (IF resumed THEN <<"stateChange:running", "resumed">>
                              ELSE <<>>)
        IN /\ isPaused' = IF resumed THEN FALSE ELSE isPaused
           /\ wait' = IF resumed /\ pausePromise = "pending"
                        THEN resolveWaits(wait) ELSE wait
           /\ pausePromise' = IF resumed THEN "null" ELSE pausePromise
           /\ IF CloseAwaits
                THEN /\ state' = IF resumed THEN "running" ELSE "stopping"
                     /\ stopPc' = "closing"
                     /\ last' = Did("stop", "pending", ev)
                     /\ hist' = [hist EXCEPT !.stopCalled = TRUE]
                     /\ UNCHANGED <<stats, clock>>
                ELSE /\ state' = "stopped"
                     /\ clock' = clock + 1
                     /\ stats' = [stats EXCEPT !.endTime = clock']
                     /\ last' = Did("stop", "returned",
                                    ev \o <<"stateChange:stopped", "stopped">>)
                     /\ hist' = [hist EXCEPT !.stopCalled = TRUE,
                                             !.stopped = @ + 1]
                     /\ UNCHANGED stopPc
  /\ UNCHANGED <<browser, actions, sitesLoaded, siteQueue, currentSite,
                 elapsed, cfg, pc, idx, attempt, initPc, inits, remote, clients, attached, lib, inbox>>

\* stop() after `await this.browser.close()`.  Closing a connected browser
\* makes it emit 'disconnected', which the handler of initialize() sees
\* before stop() goes on.
StopEnd ==
  /\ stopPc \in {"closing", "closing_old"}
  /\ stopPc' = "idle"
  /\ browser' = IF stopPc = "closing" THEN "closed" ELSE browser
  /\ LET err == stopPc = "closing" /\ browser = "open" /\ state = "running"
     IN /\ clock' = clock + (IF err THEN 2 ELSE 1)
        /\ stats' = [(IF err THEN handleErrorStats(stats, clock + 1)
                             ELSE stats) EXCEPT !.endTime = clock']
        /\ last' = Did("stopEnd", "returned",
                       (IF err THEN <<"stateChange:error", "error">>
                               ELSE <<>>)
                         \o <<"stateChange:stopped", "stopped">>)
  /\ state' = "stopped"
  /\ hist' = [hist EXCEPT !.stopped = @ + 1]
  /\ UNCHANGED <<shouldStop, isPaused, pausePromise, actions, sitesLoaded,
                 siteQueue, currentSite, elapsed, cfg, pc, idx, attempt, wait,
                 initPc, inits, remote, clients, attached, lib, inbox>>

\* ------------------------------------------- browser 'disconnected' event

\* handler registered by initialize(), lines 81-86
DisconnectGuard == state = "running"

Disconnect ==
  /\ browser = "open"
  /\ browser' = "lost"
  /\ IF DisconnectGuard
       THEN /\ state' = "error"
            /\ clock' = clock + 1
            /\ stats' = handleErrorStats(stats, clock')
            /\ last' = Did("disconnected", "fatal", <<"stateChange:error", "error">>)
            /\ hist' = [hist EXCEPT !.disconnected = TRUE]
       ELSE /\ last' = Did("disconnected", "ignored", <<>>)
            /\ UNCHANGED <<state, clock, stats, hist>>
  /\ UNCHANGED <<shouldStop, isPaused, pausePromise, actions, sitesLoaded,
                 siteQueue, currentSite, elapsed, cfg, pc, idx, attempt, wait,
                 initPc, stopPc, inits, remote, clients, attached, lib, inbox>>

\* ------------------------------------------ the loop of one start() call

SessionFrame ==
  UNCHANGED <<shouldStop, isPaused, pausePromise, browser, actions,
              sitesLoaded, siteQueue, cfg, initPc, stopPc, inits, remote, clients, attached, lib, inbox>>

NavFrame == SessionFrame /\ UNCHANGED hist

LoopFrame == NavFrame /\ UNCHANGED attempt

\* time passes while the loop is suspended at an await; it is tracked only
\* under a configuration that reads it (lines 232 and 244)
TimeRead == cfg.maxDuration > 0 \/ cfg.breakInterval > 0

Tick == elapsed' \in IF TimeRead THEN elapsed..MaxElapsed ELSE {elapsed}

\* start() lines 165-169, reached when _visitSites returns
Complete(l) ==
  /\ clock' = clock + 1
  /\ stats' = [stats EXCEPT !.endTime = clock']
  /\ state' = "stopped"
  /\ pc' = [pc EXCEPT ![l] = "done"]
  /\ last' = Did("loop", "completed", <<"stateChange:stopped", "completed">>)
  /\ UNCHANGED <<idx, currentSite>>

\* _visitSites lines 257-261 and the loop increment: wait between sites, or
\* go straight to the next iteration
WaitsNext(l) == idx[l] < Len(siteQueue) - 1 /\ ~shouldStop

\* a loop that goes back to the same destination after a visit
AfterVisitStays(l) ==
  /\ pc' = [pc EXCEPT ![l] = "top"]
  /\ UNCHANGED idx

AfterVisit(l) ==
  /\ pc' = [pc EXCEPT ![l] = IF WaitsNext(l) THEN "wait" ELSE "top"]
  /\ idx' = [idx EXCEPT ![l] = IF WaitsNext(l) THEN @ ELSE @ + 1]

\* start() lines 171-174: an exception has left the loop; _handleError
\* records it and start() rejects with it.  s is this.stats at the throw.
Escape(l, s, emitted) ==
  /\ clock' = clock + 1
  /\ stats' = handleErrorStats(s, clock')
  /\ state' = "error"
  /\ pc' = [pc EXCEPT ![l] = "threw"]
  /\ last' = Did("loop", "throws", emitted \o <<"stateChange:error", "error">>)
  /\ UNCHANGED idx

\* the payload of the siteStart event that iteration i = idx[l] of the loop
\* emits (_visitSites lines 216, 240 and 254, _visitSite line 277)
siteStartPayload(l) ==
  [url |-> siteQueue[idx[l] + 1], current |-> idx[l] + 1,
   total |-> Len(siteQueue)]

\* _visitSite lines 271-281: count the visit, announce it, start navigating.
\* With this.browser still null the call itself throws into the catch block.
\* Lines 271-277 are outside the try block: an exception thrown there (by a
\* listener of siteStart, which emit() calls synchronously) leaves the loop.
BeginVisit(l, pre) ==
  \/ /\ browser = "null"
     /\ stats' = visitFailed([stats EXCEPT !.sitesVisited = @ + 1], FALSE)
     /\ last' = Did("loop", "siteFailed", pre \o <<"siteStart", "siteFailed">>)
     /\ AfterVisit(l)
     /\ UNCHANGED <<state, clock>>
  \/ /\ browser # "null"
     /\ stats' = [stats EXCEPT !.sitesVisited = @ + 1]
     /\ last' = Did("loop", "siteStart", pre \o <<"siteStart">>)
     /\ pc' = [pc EXCEPT ![l] = "nav"]
     /\ UNCHANGED <<state, clock, idx>>
  \/ Escape(l, [stats EXCEPT !.sitesVisited = @ + 1], pre \o <<"siteStart">>)

\* _visitSites lines 244-251: a break is due
BreakDue(now) ==
  /\ cfg.breakInterval > 0
  /\ now \div cfg.breakInterval > stats.sitesVisited \div 10
  /\ stats.sitesVisited > 0

\* a limit check that looks at the page count only
LimitReachedPagesOnly(now) ==
  cfg.maxPages > 0 /\ stats.pagesViewed >= cfg.maxPages

\* _visitSites lines 226-238: the page limit or the duration limit is reached
LimitReached(now) ==
  \/ cfg.maxPages > 0 /\ stats.pagesViewed >= cfg.maxPages
  \/ cfg.maxDuration > 0 /\ now >= cfg.maxDuration

\* _visitSites lines 226-255: session limits, scheduled break, visit;
\* now is the run time in minutes that Date.now() gives
Proceed(l, now) ==
  IF LimitReached(now)
    THEN Complete(l)
    ELSE /\ currentSite' = siteQueue[idx[l] + 1]
         /\ IF BreakDue(now)
              THEN /\ pc' = [pc EXCEPT ![l] = "break"]
                   /\ last' = Did("loop", "break", <<"breakStart">>)
                   /\ UNCHANGED <<state, clock, stats, idx>>
              ELSE BeginVisit(l, <<>>)

\* _visitSites lines 218-224: loop condition, stop flag, pause check
VisitTop(l) ==
  /\ pc[l] = "top"
  /\ IF idx[l] >= Len(siteQueue) \/ shouldStop
       THEN Complete(l) /\ UNCHANGED wait
       ELSE IF isPaused
         THEN /\ pc' = [pc EXCEPT ![l] = "blocked"]
              /\ wait' = [wait EXCEPT ![l] = "pending"]
              /\ last' = Did("loop", "blocked", <<>>)
              /\ UNCHANGED <<state, stats, clock, idx, currentSite>>
         ELSE /\ Proceed(l, elapsed)
              /\ UNCHANGED wait
  /\ UNCHANGED elapsed
  /\ LoopFrame

\* _checkPaused line 430: the awaited pause promise has been resolved
VisitReleased(l) ==
  /\ pc[l] = "blocked"
  /\ wait[l] = "released"
  /\ wait' = [wait EXCEPT ![l] = "none"]
  /\ Tick
  /\ Proceed(l, elapsed')
  /\ LoopFrame

\* _takeBreak lines 418-421, then the visit
BreakDone(l) ==
  /\ pc[l] = "break"
  /\ BeginVisit(l, <<"breakEnd">>)
  /\ UNCHANGED <<wait, currentSite>>
  /\ Tick
  /\ LoopFrame

\* a goto that gives up one attempt early
LastAttemptEarly(n) == n >= maxRetries - 1

\* BrowserController.goto lines 438 and 461: n attempts have failed
LastAttempt(n) == n >= maxRetries

\* One attempt of BrowserController.goto has ended: page.goto returned, or
\* it threw and goto backs off for the next attempt, or it threw for the
\* last time and goto gives up (the catch block of _visitSite follows)
NavDone(l) ==
  /\ pc[l] = "nav"
  /\ \/ /\ browser = "open"
        /\ stats' = [stats EXCEPT !.pagesViewed = @ + 1]
        /\ pc' = [pc EXCEPT ![l] = "page"]
        /\ attempt' = [attempt EXCEPT ![l] = 0]
        /\ last' = Did("loop", "navigated", <<"pageVisited">>)
        /\ UNCHANGED idx
     \/ /\ ~LastAttempt(attempt[l] + 1)
        /\ attempt' = [attempt EXCEPT ![l] = @ + 1]
        /\ last' = Did("loop", "retry", <<>>)
        /\ UNCHANGED <<stats, pc, idx>>
     \/ /\ LastAttempt(attempt[l] + 1)
        /\ attempt' = [attempt EXCEPT ![l] = 0]
        /\ stats' = visitFailed(stats, TRUE)
        /\ last' = Did("loop", "siteFailed", <<"siteFailed">>)
        /\ AfterVisit(l)
  /\ UNCHANGED <<state, clock, wait, currentSite>>
  /\ Tick
  /\ NavFrame

\* dismissPopups, hasCaptcha and getPageInfo have returned (none of them
\* throws), _visitSite lines 286-298
PageDone(l) ==
  /\ pc[l] = "page"
  /\ \/ /\ stats' = visitCaptcha(stats)
        /\ last' = Did("loop", "captcha", <<"captchaDetected">>)
        /\ hist' = [hist EXCEPT !.captcha = TRUE]
        /\ AfterVisit(l)
     \/ /\ pc' = [pc EXCEPT ![l] = "stay"]
        /\ last' = Did("loop", "page", <<>>)
        /\ UNCHANGED <<stats, idx, hist>>
  /\ UNCHANGED <<state, clock, wait, currentSite, attempt>>
  /\ Tick
  /\ SessionFrame

\* stayOnPage, and _followLinks after a navigation away, have returned or
\* thrown, _visitSite lines 302-354.  pages counts the pages viewed after
\* the landing page: one for the navigation away (line 317) and one for
\* each level _followLinks went down (line 385) before returning, at most
\* maxDepth - 1, or before its stayOnPage threw.
StayDone(l) ==
  /\ pc[l] = "stay"
  /\ \/ \E pages \in 0..maxDepth :
          /\ stats' = visitSucceeded(stats, pages)
          /\ last' = Did("loop", "siteComplete", <<"siteComplete">>)
     \/ \E pages \in 0..(maxDepth - 1) :
          /\ stats' = visitFailed([stats EXCEPT !.pagesViewed = @ + pages],
                                  FALSE)
          /\ last' = Did("loop", "siteFailed", <<"siteFailed">>)
  /\ AfterVisit(l)
  /\ UNCHANGED <<state, clock, wait, currentSite>>
  /\ Tick
  /\ LoopFrame

\* _waitBetweenSites has returned, _visitSites line 259
WaitDone(l) ==
  /\ pc[l] = "wait"
  /\ pc' = [pc EXCEPT ![l] = "top"]
  /\ idx' = [idx EXCEPT ![l] = @ + 1]
  /\ last' = Did("loop", "waited", <<>>)
  /\ UNCHANGED <<state, stats, clock, wait, currentSite>>
  /\ Tick
  /\ LoopFrame

\* ------------------------------------------------ _performSearches

\* lines 198-202 and the loop increment
SearchWaits(l) == idx[l] < cfg.searchCount - 1

AfterSearch(l) ==
  /\ pc' = [pc EXCEPT ![l] = IF SearchWaits(l) THEN "s_wait" ELSE "s_top"]
  /\ idx' = [idx EXCEPT ![l] = IF SearchWaits(l) THEN @ ELSE @ + 1]

\* a failed search that leaves no entry in stats.errors
SearchFailedUnrecorded(l) ==
  /\ pc' = [pc EXCEPT ![l] = "s_top"]
  /\ idx' = [idx EXCEPT ![l] = @ + 1]
  /\ last' = Did("loop", "searchFailed", <<>>)
  /\ UNCHANGED stats

\* catch block, lines 204-207: the wait is skipped
SearchFailed(l) ==
  /\ stats' = [stats EXCEPT !.errors.search = @ + 1]
  /\ pc' = [pc EXCEPT ![l] = "s_top"]
  /\ idx' = [idx EXCEPT ![l] = @ + 1]
  /\ last' = Did("loop", "searchFailed", <<>>)

\* line 188: with this.actions still null the call itself throws
BeginSearch(l) ==
  IF actions
    THEN /\ pc' = [pc EXCEPT ![l] = "s_search"]
         /\ last' = Did("loop", "search", <<>>)
         /\ UNCHANGED <<stats, idx>>
    ELSE SearchFailed(l)

\* lines 183-185, and the return into _visitSites
SearchTop(l) ==
  /\ pc[l] = "s_top"
  /\ IF idx[l] >= cfg.searchCount \/ shouldStop
       THEN /\ pc' = [pc EXCEPT ![l] = "top"]
            /\ idx' = [idx EXCEPT ![l] = 0]
            /\ last' = Did("loop", "searched", <<>>)
            /\ UNCHANGED <<stats, wait>>
       ELSE IF isPaused
         THEN /\ pc' = [pc EXCEPT ![l] = "s_blocked"]
              /\ wait' = [wait EXCEPT ![l] = "pending"]
              /\ last' = Did("loop", "blocked", <<>>)
              /\ UNCHANGED <<stats, idx>>
         ELSE /\ BeginSearch(l)
              /\ UNCHANGED wait
  /\ UNCHANGED <<state, clock, elapsed, currentSite>>
  /\ LoopFrame

SearchReleased(l) ==
  /\ pc[l] = "s_blocked"
  /\ wait[l] = "released"
  /\ wait' = [wait EXCEPT ![l] = "none"]
  /\ BeginSearch(l)
  /\ UNCHANGED <<state, clock, currentSite>>
  /\ Tick
  /\ LoopFrame

\* actions.performSearch has returned (it catches its own failures)
SearchDone(l) ==
  /\ pc[l] = "s_search"
  /\ \/ /\ stats' = [stats EXCEPT !.searchesPerformed = @ + 1]
        /\ pc' = [pc EXCEPT ![l] = "s_stay"]
        /\ last' = Did("loop", "searchPerformed", <<"searchPerformed">>)
        /\ UNCHANGED idx
     \/ /\ AfterSearch(l)
        /\ last' = Did("loop", "notSearched", <<>>)
        /\ UNCHANGED stats
  /\ UNCHANGED <<state, clock, wait, currentSite>>
  /\ Tick
  /\ LoopFrame

\* actions.stayOnPage('search') has returned or thrown
SearchStayDone(l) ==
  /\ pc[l] = "s_stay"
  /\ \/ /\ AfterSearch(l)
        /\ last' = Did("loop", "searchStay", <<>>)
        /\ UNCHANGED stats
     \/ SearchFailed(l)
  /\ UNCHANGED <<state, clock, wait, currentSite>>
  /\ Tick
  /\ LoopFrame

SearchWaitDone(l) ==
  /\ pc[l] = "s_wait"
  /\ pc' = [pc EXCEPT ![l] = "s_top"]
  /\ idx' = [idx EXCEPT ![l] = @ + 1]
  /\ last' = Did("loop", "waited", <<>>)
  /\ UNCHANGED <<state, stats, clock, wait, currentSite>>
  /\ Tick
  /\ LoopFrame

\* ------------------------------------------------------ specification

Next ==
  \/ InitializeBegin
  \/ InitializeEnd
  \/ \E l \in Loops : Start(l)
  \/ Pause
  \/ Resume
  \/ StopCall
  \/ StopEnd
  \/ Disconnect
  \/ \E l \in Loops : SearchTop(l)
  \/ \E l \in Loops : SearchReleased(l)
  \/ \E l \in Loops : SearchDone(l)
  \/ \E l \in Loops : SearchStayDone(l)
  \/ \E l \in Loops : SearchWaitDone(l)
  \/ \E l \in Loops : VisitTop(l)
  \/ \E l \in Loops : VisitReleased(l)
  \/ \E l \in Loops : BreakDone(l)
  \/ \E l \in Loops : NavDone(l)
  \/ \E l \in Loops : PageDone(l)
  \/ \E l \in Loops : StayDone(l)
  \/ \E l \in Loops : WaitDone(l)

Spec == Init /\ [][Next]_vars

\* One run as the CLI drives it (index.js lines 292-311): initialize() is
\* the first call on the new session, start() follows in the continuation
\* of a successful initialize(), and from then on SIGINT and the remote
\* stop, pause and resume commands arrive at any time.  These arrive as
\* tasks of the event loop, and so do timers and I/O completions: none of
\* them runs while the continuation of a resolved pause promise (a
\* microtask) is still pending.
Quiet == \A l \in Slots : wait[l] # "released"

RunNext ==
  \/ Quiet /\ InitializeBegin /\ last.op = "new"
  \/ Quiet /\ InitializeEnd
  \/ Quiet /\ Start(1) /\ last.op = "initialize" /\ last.ret = "true"
  \/ Quiet /\ Pause
  \/ Quiet /\ Resume
  \/ Quiet /\ StopCall
  \/ Quiet /\ StopEnd
  \/ Quiet /\ Disconnect
  \/ SearchTop(1)
  \/ SearchReleased(1)
  \/ SearchDone(1)
  \/ SearchStayDone(1)
  \/ SearchWaitDone(1)
  \/ VisitTop(1)
  \/ VisitReleased(1)
  \/ BreakDone(1)
  \/ NavDone(1)
  \/ PageDone(1)
  \/ StayDone(1)
  \/ WaitDone(1)

SpecRun == Init /\ [][RunNext]_vars

\* ------------------------------------------ the remote command handler

\* _handleCommand, case GOTO (index.js lines 1297-1303) up to the await:
\* browser.goto is called on whatever this.session.browser is, in any state
\* of the session; with no browser yet the call throws and the command is
\* answered with an error.
GotoBegin ==
  /\ remote.sent < MaxGotos
  /\ IF browser = "null"
       THEN /\ remote' = [remote EXCEPT !.sent = @ + 1]
            /\ last' = Did("goto", "throws", <<>>)
       ELSE /\ remote' = [remote EXCEPT !.sent = @ + 1, !.flying = @ + 1]
            /\ last' = Did("goto", "pending", <<>>)
  /\ UNCHANGED <<state, shouldStop, isPaused, pausePromise, browser, actions,
                 sitesLoaded, siteQueue, currentSite, stats, clock, elapsed,
                 cfg, pc, idx, attempt, wait, initPc, stopPc, inits, clients, attached, lib, inbox,
                 hist>>

\* The goto of a GOTO command has returned or has given up after its last
\* attempt (its earlier attempts change nothing in the session); the
\* handlers of initialize() lines 88-94 see its navigated or
\* navigationFailed event.
GotoEnd ==
  /\ remote.flying > 0
  /\ remote' = [remote EXCEPT !.flying = @ - 1]
  /\ \/ /\ browser = "open"
        /\ last' = Did("goto", "true", <<"pageVisited">>)
        /\ UNCHANGED stats
     \/ /\ stats' = [stats EXCEPT !.errors.navigation = @ + 1]
        /\ last' = Did("goto", "throws", <<>>)
  /\ UNCHANGED <<state, shouldStop, isPaused, pausePromise, browser, actions,
                 sitesLoaded, siteQueue, currentSite, clock, elapsed, cfg, pc,
                 idx, attempt, wait, initPc, stopPc, inits, clients, attached, lib, inbox, hist>>

\* initialize() has just resolved: the caller's continuation, which calls
\* start() (index.js lines 309-310 and 1238-1239), runs before any other
\* task of the event loop
StartDue == last.op = "initialize" /\ last.ret = "true"

\* the other tasks of the event loop
Task == Quiet /\ ~StartDue

\* A session attached to the command handler (index.js line 231).  The CLI
\* makes the first initialize() and start(); a START command (lines
\* 1236-1244) makes the same two calls whatever the state of the session.
\* STOP and GOTO arrive at any time.  The runs are taken with searches,
\* breaks and session limits switched off, without PAUSE commands and with
\* a browser that stays connected.
InitRemote ==
  /\ Init
  /\ cfg.searchCount = 0 /\ cfg.breakInterval = 0
  /\ cfg.maxPages = 0 /\ cfg.maxDuration = 0

RemoteNext ==
  \/ Task /\ InitializeCall(MaxInits + MaxRestarts)
  \/ Task /\ InitializeEnd
  \/ StartDue /\ \E l \in Slots : Start(l)
  \/ Task /\ StopCall
  \/ Task /\ StopEnd
  \/ Task /\ GotoBegin
  \/ Task /\ GotoEnd
  \/ \E l \in Slots : VisitTop(l)
  \/ \E l \in Slots : NavDone(l)
  \/ \E l \in Slots : PageDone(l)
  \/ \E l \in Slots : StayDone(l)
  \/ \E l \in Slots : WaitDone(l)

SpecRemote == InitRemote /\ [][RemoteNext]_vars

\* ------------------------------------------ the command server's clients

\* index.js lines 961-971: the event names a client may subscribe to
EventTypes == {"stateChange", "siteStart", "siteComplete", "siteFailed",
               "searchPerformed", "pageVisited", "error", "statsUpdate", "*"}

\* attachSession lines 1050-1063: the session events the server forwards
sessionEvents == {"stateChange", "siteStart", "siteComplete", "siteFailed",
                  "searchPerformed", "pageVisited", "error", "paused",
                  "resumed", "started", "stopped", "completed"}

\* the name under which the session emits the event
EventType(ev) == IF IsStateChange(ev) THEN "stateChange" ELSE ev

EventNames(emits) == [k \in 1..Len(emits) |-> EventType(emits[k])]

Forwarded(name) == name \in sessionEvents

\* a subscription test that lets every event through to a client that has
\* subscribed to anything
isSubscribedToAny(subs, eventType) == subs # {}

\* Client.isSubscribed, lines 1002-1004
isSubscribed(subs, eventType) == eventType \in subs \/ "*" \in subs

\* the calls of broadcast() made during the last step: one for each
\* forwarded event the session emitted (lines 1065-1069), or the statsUpdate
\* of the timer
Broadcasts ==
  IF last.op = "statsTimer"
    THEN IF last.ret = "broadcast" THEN <<"statsUpdate">> ELSE <<>>
    ELSE SelectSeq(EventNames(last.emits), Forwarded)

\* broadcast lines 1375-1381 and Client.send: the events sent to client c
\* during the last step
Received(c) ==
  LET Mine(name) == isSubscribed(clients[c].subs, name)
  IN IF clients[c].conn = "open" THEN SelectSeq(Broadcasts, Mine) ELSE <<>>

\* the server accepts connections once it listens, and run() calls
\* initialize() in the continuation of that (index.js lines 232 and 309)
Serving == Task /\ last.op # "new"

WsFrame ==
  UNCHANGED <<state, shouldStop, isPaused, pausePromise, browser, actions,
              sitesLoaded, siteQueue, currentSite, stats, clock, elapsed, cfg,
              pc, idx, attempt, wait, initPc, stopPc, inits, remote, attached, lib,
              inbox, hist>>

\* _handleConnection, lines 1126-1164
WsConnect(c) ==
  /\ Serving
  /\ clients[c].conn = "none"
  /\ clients' = [clients EXCEPT ![c] = [conn |-> "open", subs |-> {}]]
  /\ last' = Did("connect", "welcome", <<>>)
  /\ WsFrame

\* the close handler, lines 1152-1156
WsClose(c) ==
  /\ Serving
  /\ clients[c].conn = "open"
  /\ clients' = [clients EXCEPT ![c] = NoClient]
  /\ last' = Did("close", "deleted", <<>>)
  /\ WsFrame

\* the event names of the subscribe and unsubscribe messages explored
\* (data.event, line 1327); a subscribe message without one asks for '*'
Requests == {"*", "siteFailed", "paused"}

\* _handleSubscribe, lines 1326-1342
WsSubscribe(c) ==
  /\ Serving
  /\ clients[c].conn = "open"
  /\ \E event \in Requests :
       /\ clients' = [clients EXCEPT
                        ![c].subs = @ \cup ({event} \cap EventTypes)]
       /\ last' = Did("subscribe", event, <<>>)
  /\ WsFrame

\* _handleUnsubscribe, lines 1347-1361
WsUnsubscribe(c) ==
  /\ Serving
  /\ clients[c].conn = "open"
  /\ \E event \in Requests :
       clients' = [clients EXCEPT ![c].subs = @ \ {event}]
  /\ last' = Did("unsubscribe", "true", <<>>)
  /\ WsFrame

\* a stats timer whose read keeps the duration it computed in this.stats
StatsTimerStoring ==
  /\ Serving
  /\ last' = Did("statsTimer",
                 IF state = "running" THEN "broadcast" ELSE "idle", <<>>)
  /\ stats' = [k \in DOMAIN stats \cup {"duration"} |->
                 IF k = "duration" THEN getStats.duration ELSE stats[k]]
  /\ UNCHANGED <<state, shouldStop, isPaused, pausePromise, browser, actions,
                 sitesLoaded, siteQueue, currentSite, clock, elapsed, cfg,
                 pc, idx, attempt, wait, initPc, stopPc, inits, remote,
                 clients, attached, lib, inbox, hist>>

\* the stats timer of attachSession, lines 1072-1076
StatsTimer ==
  /\ Serving
  /\ last' = Did("statsTimer",
                 IF state = "running" THEN "broadcast" ELSE "idle", <<>>)
  /\ UNCHANGED clients
  /\ WsFrame

\* the CLI run with the command server enabled and its clients
WsNext ==
  \/ RunNext
  \/ \E c \in Clients : WsConnect(c)
  \/ \E c \in Clients : WsClose(c)
  \/ \E c \in Clients : WsSubscribe(c)
  \/ \E c \in Clients : WsUnsubscribe(c)
  \/ StatsTimer

\* the runs taken with clients: a full queue with scheduled breaks, or a
\* search warm-up before a single destination; no session limits
InitWs ==
  /\ Init
  /\ ~sitesLoaded
  /\ cfg.maxPages = 0 /\ cfg.maxDuration = 0
  /\ \/ cfg.nSites = MaxSites /\ cfg.searchCount = 0 /\ cfg.breakInterval > 0
     \/ cfg.nSites = 1 /\ cfg.searchCount > 0

SpecWs == InitWs /\ [][WsNext]_vars

\* ------------------------------------------------- the client table sweep

\* the socket of a client leaves the OPEN state (a close frame is under way
\* or the connection broke) before its close event is delivered: the client
\* is still in the table and Client.send, lines 986-992, sends it nothing
WsClosing(c) ==
  /\ Serving
  /\ clients[c].conn = "open"
  /\ clients' = [clients EXCEPT ![c].conn = "closing"]
  /\ last' = Did("closing", "kept", <<>>)
  /\ WsFrame

\* the close handler, lines 1152-1156, run for a socket that had left OPEN
WsClosed(c) ==
  /\ Serving
  /\ clients[c].conn = "closing"
  /\ clients' = [clients EXCEPT ![c] = NoClient]
  /\ last' = Did("close", "deleted", <<>>)
  /\ WsFrame

\* a sweep that pings the open clients and removes none
sweepPingOnly(table) == table

\* the loop of the heartbeat timer, lines 1403-1410, over the whole table
sweep(table) ==
  [c \in Clients |->
     IF table[c].conn = "closing" THEN NoClient ELSE table[c]]

\* the heartbeat timer of _startHeartbeat, lines 1401-1412
Heartbeat ==
  /\ Serving
  /\ clients' = sweep(clients)
  /\ last' = Did("heartbeat",
                 IF clients' = clients THEN "pinged" ELSE "deleted", <<>>)
  /\ WsFrame

\* the run with clients whose sockets close in two steps, and the heartbeat
TableNext ==
  \/ WsNext
  \/ \E c \in Clients : WsClosing(c)
  \/ \E c \in Clients : WsClosed(c)
  \/ Heartbeat

SpecTable == InitWs /\ [][TableNext]_vars

\* ------------------------------------------ the message protocol

\* index.js lines 938-956
Commands == {"start", "stop", "pause", "resume", "status", "stats", "config",
             "screenshot", "goto", "list_clients"}

\* a handler whose STATS case does not look for the session
NeedsSessionButStats == {"start", "stop", "pause", "resume", "screenshot",
                         "goto"}

\* the cases of _handleCommand that begin with `if (!this.session) throw`
NeedsSession == {"start", "stop", "pause", "resume", "stats", "screenshot",
                 "goto"}

\* run() loads the configuration (index.js line 172) before the command
\* server is created; Config.get() throws until then (config.js 365-370)
ConfigLoaded == TRUE

RequestIds == 1..MaxRequestId

\* The inbound messages explored, by what _handleMessage makes of them:
\* text that is not JSON, the JSON text `null`, an object of an unknown
\* type, a ping, and a command (with a name outside Commands as well; url
\* tells whether data.url is given).  Subscribe and unsubscribe messages
\* are the actions WsSubscribe and WsUnsubscribe.
Messages ==
  [kind : {"badjson", "null", "unknownType", "ping"}, command : {"none"},
   rid : RequestIds, url : {TRUE}]
  \cup [kind : {"command"}, command : Commands \cup {"bogus"},
        rid : RequestIds, url : {TRUE}]
  \cup [kind : {"command"}, command : {"goto"}, rid : RequestIds,
        url : {FALSE}]

\* the process has been ended by an unhandled promise rejection
Live == last.ret # "crashed"

\* a message has been received and its handler has not run yet
Handling == last.op = "receive"

\* a command handler is suspended at an await
AsyncPending ==
  \/ initPc # "idle" \/ StartDue \/ stopPc # "idle"
  \/ remote.flying > 0 \/ remote.shooting > 0

For(cmd) == Handling /\ attached /\ inbox.kind = "command" /\ inbox.command = cmd

ProtoFrame ==
  UNCHANGED <<state, shouldStop, isPaused, pausePromise, browser, actions,
              sitesLoaded, siteQueue, currentSite, stats, clock, elapsed, cfg,
              pc, idx, attempt, wait, initPc, stopPc, inits, clients, attached, lib,
              hist>>

\* the message event of a connection, lines 1147-1149.  A message is taken
\* when no command handler is suspended, and a START or GOTO command only
\* while the session can still take one.
Receive(c) ==
  /\ Live /\ Task /\ ~Handling /\ ~AsyncPending
  /\ clients[c].conn = "open"
  /\ \E m \in Messages :
       /\ (attached /\ m.command = "start") =>
            /\ inits < MaxInits
            /\ \E l \in Slots : pc[l] = "idle"
       /\ (attached /\ m.command = "goto" /\ m.url) => remote.sent < MaxGotos
       /\ inbox' = [client |-> c, kind |-> m.kind, command |-> m.command,
                    rid |-> m.rid, url |-> m.url]
       /\ last' = Did("receive", m.kind, <<>>)
  /\ UNCHANGED remote
  /\ ProtoFrame

\* _handleMessage lines 1172-1181 and 1201-1210: text that does not parse,
\* a ping, a message of an unknown type
HandleMessage ==
  /\ Handling
  /\ inbox.kind \in {"badjson", "ping", "unknownType"}
  /\ last' = Did("message",
                 CASE inbox.kind = "badjson" -> "Invalid JSON"
                   [] inbox.kind = "ping" -> "pong"
                   [] OTHER -> "Unknown message type",
                 <<>>)
  /\ UNCHANGED <<remote, inbox>>
  /\ ProtoFrame

\* _handleMessage line 1183: destructuring the parsed value null throws
\* outside both try blocks, so the promise of _handleMessage is rejected
\* and nobody handles the rejection (line 1148).  Nothing is sent.  Node
\* either reports the unhandled rejection and goes on, or ends the
\* process, which takes every connection down.
HandleNull ==
  /\ Handling
  /\ inbox.kind = "null"
  /\ \/ /\ last' = Did("message", "rejects", <<>>)
        /\ UNCHANGED clients
     \/ /\ last' = Did("message", "crashed", <<>>)
        /\ clients' = [c \in Clients |-> NoClient]
  /\ UNCHANGED <<state, shouldStop, isPaused, pausePromise, browser, actions,
                 sitesLoaded, siteQueue, currentSite, stats, clock, elapsed,
                 cfg, pc, idx, attempt, wait, initPc, stopPc, inits, remote,
                 attached, lib, inbox, hist>>

\* _handleCommand: the cases that end without a call that changes the
\* session.  The result is "ok" or the message of the error thrown.
CommandResult ==
  CASE inbox.command \in NeedsSession /\ ~attached -> "No session attached"
    [] inbox.command \notin Commands -> "Unknown command"
    [] inbox.command = "config" /\ ~ConfigLoaded -> "Configuration not loaded"
    [] inbox.command = "goto" /\ ~inbox.url -> "URL required"
    [] OTHER -> "ok"

Immediate ==
  \/ inbox.command \in NeedsSession /\ ~attached
  \/ inbox.command \notin Commands
  \/ inbox.command \in {"status", "stats", "config", "list_clients"}
  \/ inbox.command = "goto" /\ ~inbox.url

HandleCommand ==
  /\ Handling
  /\ inbox.kind = "command"
  /\ Immediate
  /\ last' = Did("command", CommandResult, <<>>)
  /\ UNCHANGED <<remote, inbox>>
  /\ ProtoFrame

\* case SCREENSHOT, line 1289: session.screenshot() throws without a
\* browser (session.js 600-602) and BrowserController.screenshot without a
\* page, which exists from the launch to the close
ScreenshotBegin ==
  /\ IF browser \in {"open", "lost"}
       THEN /\ remote' = [remote EXCEPT !.shooting = @ + 1]
            /\ last' = Did("screenshot", "pending", <<>>)
       ELSE /\ last' = Did("screenshot", "throws", <<>>)
            /\ UNCHANGED remote
  /\ UNCHANGED inbox
  /\ ProtoFrame

\* page.screenshot has returned or thrown, lines 1289-1295
ScreenshotEnd ==
  /\ remote.shooting > 0
  /\ remote' = [remote EXCEPT !.shooting = @ - 1]
  /\ \/ browser = "open" /\ last' = Did("screenshot", "true", <<>>)
     \/ last' = Did("screenshot", "throws", <<>>)
  /\ UNCHANGED inbox
  /\ ProtoFrame

\* What the step just taken sends to the sender of the message: the reply
\* of _handleMessage (lines 1176-1179, 1202, 1206-1210) or the response of
\* _handleCommand (lines 1226-1232 and 1315-1320), built when the handler
\* ends.  START answers once start() has been called, whatever becomes of
\* it (lines 1239-1243).
NoReply == [type |-> "none", success |-> FALSE, error |-> ""]

\* a response that reports success whatever happened
RespondAlwaysOk(ok, error) ==
  [type |-> "response", success |-> TRUE, error |-> ""]

Respond(ok, error) ==
  [type |-> "response", success |-> ok, error |-> IF ok THEN "" ELSE error]

Reply ==
  CASE last.op = "message" /\ last.ret = "pong" ->
         [type |-> "pong", success |-> FALSE, error |-> ""]
    [] last.op = "message" /\ last.ret \in {"Invalid JSON",
                                            "Unknown message type"} ->
         [type |-> "error", success |-> FALSE, error |-> last.ret]
    [] last.op = "command" -> Respond(last.ret = "ok", last.ret)
    [] last.op \in {"pause", "resume"} ->
         Respond(last.ret = "true", "")
    [] last.op = "stop" /\ last.ret # "pending" -> Respond(TRUE, "")
    [] last.op = "stopEnd" -> Respond(TRUE, "")
    [] last.op = "initialize" /\ last.ret = "throws" ->
         Respond(FALSE, "initialize failed")
    [] last.op = "start" -> Respond(TRUE, "")
    [] last.op \in {"goto", "screenshot"} /\ last.ret # "pending" ->
         Respond(last.ret = "true", "browser call failed")
    [] OTHER -> NoReply

\* Client.send, lines 986-992: sent only on an open connection.  The reply
\* to text that did not parse has no requestId.
Sent ==
  IF Reply.type = "none" \/ inbox.client = 0
    THEN <<>>
    ELSE IF clients[inbox.client].conn # "open"
      THEN <<>>
      ELSE <<[to |-> inbox.client,
              type |-> Reply.type,
              command |-> IF Reply.type = "response" THEN inbox.command
                                                     ELSE "none",
              requestId |-> IF last.ret = "Invalid JSON" THEN 0 ELSE inbox.rid,
              success |-> Reply.success,
              error |-> Reply.error]>>

\* the command server used with or without a session attached; the
\* session is driven by its commands alone.  The runs are followed up to
\* the first await of the loop that START begins, and a client stays
\* connected while a command of its is suspended.
InitProto ==
  /\ InitSession
  /\ attached \in BOOLEAN
  /\ lib = NoLib
  /\ last = Did("listening", "ok", <<>>)
  /\ ~sitesLoaded
  /\ cfg.searchCount = 0 /\ cfg.breakInterval = 0
  /\ cfg.maxPages = 0 /\ cfg.maxDuration = 0

ProtoNext ==
  \/ \E c \in Clients : Live /\ ~Handling /\ WsConnect(c)
  \/ \E c \in Clients : Live /\ ~Handling /\ ~AsyncPending /\ WsClose(c)
  \/ \E c \in Clients : Live /\ ~Handling /\ WsSubscribe(c)
  \/ \E c \in Clients : Live /\ ~Handling /\ WsUnsubscribe(c)
  \/ \E c \in Clients : Receive(c)
  \/ HandleMessage
  \/ HandleNull
  \/ HandleCommand
  \/ For("pause") /\ Pause
  \/ For("resume") /\ Resume
  \/ For("stop") /\ StopCall
  \/ ~Handling /\ StopEnd
  \/ For("start") /\ InitializeBegin
  \/ ~Handling /\ InitializeEnd
  \/ StartDue /\ \E l \in Slots : Start(l)
  \/ For("goto") /\ inbox.url /\ GotoBegin
  \/ ~Handling /\ GotoEnd
  \/ For("screenshot") /\ ScreenshotBegin
  \/ ~Handling /\ ScreenshotEnd

SpecProto == InitProto /\ [][ProtoNext]_vars

\* the command server with the stats timer that attachSession starts
\* (index.js lines 1071-1076)
TelemetryNext ==
  \/ ProtoNext
  \/ Live /\ ~Handling /\ attached /\ StatsTimer

SpecTelemetry == InitProto /\ [][TelemetryNext]_vars

\* ------------------------------------------ SitesManager.getSites

\* the utility specifications leave the session and the server alone
LibFrame ==
  UNCHANGED <<state, shouldStop, isPaused, pausePromise, browser, actions,
              sitesLoaded, siteQueue, currentSite, stats, clock, elapsed,
              cfg, pc, idx, attempt, wait, initPc, stopPc, inits, remote,
              clients, attached, inbox, last, hist>>

\* a session that is never started, next to the utility object
InitLib ==
  /\ InitSession
  /\ ~sitesLoaded
  /\ cfg = [nSites |-> 0, searchCount |-> 0, breakInterval |-> 0,
            maxPages |-> 0, maxDuration |-> 0]
  /\ attached = FALSE
  /\ last = Did("new", "ok", <<>>)

Range(s) == {s[k] : k \in 1..Len(s)}

SeqsUpTo(S, n) == UNION {[1..k -> S] : k \in 0..n}

\* URLs as written in a sites file or an option; two of them differ in
\* case only
Urls == {"a.com", "A.com", "b.com"}

\* String.prototype.toLowerCase
toLowerCase(u) == IF u = "A.com" THEN "a.com" ELSE u

\* new RegExp(p, 'i').test(site) for the patterns a sites file may name
test(p, site) ==
  CASE p = "^a" -> toLowerCase(site) = "a.com"
    [] p = "^b" -> toLowerCase(site) = "b.com"
    [] OTHER -> FALSE

\* the sites files: two categories and the optional excludePatterns
\* (a missing key or option is the empty set, a given one the set of its
\* value)
SitesFiles ==
  [categories : [news : SeqsUpTo(Urls, MaxList), tech : SeqsUpTo(Urls, 1)],
   excludePatterns : {{}, {<<"^b">>}}]

Given(opt) == CHOOSE v \in opt : TRUE

CategoryArgs == {<<"all">>, <<"news">>, <<"news", "tech">>, <<"tech", "blogs">>}

SitesOptions ==
  [custom : {{}} \cup {{v} : v \in SeqsUpTo({"a.com", "b.com"}, 1)},
   exclude : {{}} \cup {{v} : v \in SeqsUpTo({"a.com", "b.com"}, 1)},
   shuffle : BOOLEAN,
   maxSites : 0..MaxCap]

\* the concatenation of the lists of the categories named, in order
RECURSIVE collect(_, _)
collect(file, selected) ==
  IF selected = <<>> THEN <<>>
  ELSE file.categories[Head(selected)] \o collect(file, Tail(selected))

\* a list that keeps its repetitions
uniqueNot(s) == s

\* [...new Set(sites)]: the first occurrence of each string, in order
RECURSIVE unique(_)
unique(s) ==
  IF s = <<>> THEN <<>>
  ELSE LET r == unique(SubSeq(s, 1, Len(s) - 1))
           x == s[Len(s)]
       IN IF x \in Range(r) THEN r ELSE Append(r, x)

swap(a, i, j) == [a EXCEPT ![i] = a[j], ![j] = a[i]]

\* Random.shuffle: Fisher-Yates from the last position down; rng.next()
\* is in [0,1), so each j is one of the positions up to i.  The set of
\* the lists it can return.
RECURSIVE shuffleFrom(_, _)
shuffleFrom(result, i) ==
  IF i <= 1 THEN {result}
  ELSE UNION {shuffleFrom(swap(result, i, j), i - 1) : j \in 1..i}

shuffle(array) == shuffleFrom(array, Len(array))

\* Array.prototype.slice(0, n) for n >= 0
slice(a, n) == SubSeq(a, 1, IF n < Len(a) THEN n ELSE Len(a))

\* getSites lines 161-193: the list before the shuffle and the cap
SitesKept(file, categories, options) ==
  LET allCategories == <<"news", "tech">>
      selectedCategories ==
        IF "all" \in Range(categories) THEN allCategories
        ELSE SelectSeq(categories, LAMBDA c : c \in Range(allCategories))
      collected == collect(file, selectedCategories)
      withCustom == IF options.custom = {} THEN collected
                    ELSE collected \o Given(options.custom)
      excludeSet == IF options.exclude = {} THEN {}
                    ELSE {toLowerCase(x) : x \in Range(Given(options.exclude))}
      kept == SelectSeq(withCustom, LAMBDA x : toLowerCase(x) \notin excludeSet)
      deduped == unique(kept)
      patterns == IF file.excludePatterns = {} THEN <<>>
                  ELSE Given(file.excludePatterns)
  IN IF file.excludePatterns = {} THEN deduped
     ELSE SelectSeq(deduped,
                    LAMBDA x : ~\E k \in 1..Len(patterns) : test(patterns[k], x))

\* getSites lines 195-205: the lists it can return
SitesManager_getSites(file, categories, options) ==
  LET sites == SitesKept(file, categories, options)
      shuffled == IF options.shuffle THEN shuffle(sites) ELSE {sites}
  IN {IF options.maxSites > 0 THEN slice(q, options.maxSites) ELSE q :
        q \in shuffled}

InitSites ==
  /\ InitLib
  /\ lib \in [kind : {"sites"}, file : SitesFiles, categories : CategoryArgs,
              options : SitesOptions, done : {FALSE}, ret : {<<>>}]

\* one call of Sites.getSites with the sites file loaded
GetSites ==
  /\ lib.kind = "sites"
  /\ ~lib.done
  /\ \E r \in SitesManager_getSites(lib.file, lib.categories, lib.options) :
       lib' = [lib EXCEPT !.done = TRUE, !.ret = r]
  /\ LibFrame

SitesNext == GetSites

SpecSites == InitSites /\ [][SitesNext]_vars

\* ------------------------------------------------------ SeededRandom

\* A 32-bit word is kept as its two 16-bit halves, so that no intermediate
\* result leaves the range of the integers.
Half == 65536

\* ToInt32 of an integer number that is already in the int32 range, as a
\* bit pattern (`x | 0`, and the operand conversion of ^, >>> and imul)
Word(n) == [hi |-> (n \div Half) % Half, lo |-> n % Half]

\* the int32 number with the bit pattern w (the result of `| 0` and `^`)
Int32(w) ==
  IF w.hi >= Half \div 2 THEN (w.hi - Half) * Half + w.lo
  ELSE w.hi * Half + w.lo

RECURSIVE xorBits(_, _, _)
xorBits(x, y, n) ==
  IF n = 0 THEN 0
  ELSE (((x % 2) + (y % 2)) % 2) + 2 * xorBits(x \div 2, y \div 2, n - 1)

RECURSIVE orBits(_, _, _)
orBits(x, y, n) ==
  IF n = 0 THEN 0
  ELSE (IF (x % 2) + (y % 2) > 0 THEN 1 ELSE 0)
         + 2 * orBits(x \div 2, y \div 2, n - 1)

\* a ^ b and a | b
Xor(a, b) == [hi |-> xorBits(a.hi, b.hi, 16), lo |-> xorBits(a.lo, b.lo, 16)]
Or(a, b) == [hi |-> orBits(a.hi, b.hi, 16), lo |-> orBits(a.lo, b.lo, 16)]

\* a >>> k for 0 < k < 16
Shr(a, k) ==
  [hi |-> a.hi \div (2 ^ k),
   lo |-> (a.lo \div (2 ^ k)) + (a.hi % (2 ^ k)) * (2 ^ (16 - k))]

\* (a + b) | 0 as a bit pattern
Add(a, b) ==
  [hi |-> (a.hi + b.hi + ((a.lo + b.lo) \div Half)) % Half,
   lo |-> (a.lo + b.lo) % Half]

\* x * y modulo 2^16 for 16-bit x and y, one byte of x at a time
MulLow(x, y) == ((x % 256) * y + (((x \div 256) * y) % 256) * 256) % Half

\* Math.imul(a, b): the low 32 bits of the product
imul(a, b) ==
  LET x == (a.lo % 256) * b.lo
      y == (a.lo \div 256) * b.lo
      low == (x % Half) + (y % 256) * 256
      high == (x \div Half) + (y \div 256) + (low \div Half)
  IN [hi |-> (high + MulLow(a.hi, b.lo) + MulLow(a.lo, b.hi)) % Half,
      lo |-> low % Half]

\* the addend of line 21
Increment == 1831565813

\* the number w / 4294967296 read with the sign bit as a sign
Int32Fraction(w) ==
  [hi |-> IF w.hi >= Half \div 2 THEN w.hi - Half ELSE w.hi, lo |-> w.lo]

\* (w >>> 0) / 4294967296: the number (hi * 65536 + lo) / 2^32
Uint32Fraction(w) == [hi |-> w.hi, lo |-> w.lo]

\* next(), lines 20-21: the new this.state
nextState(st) == Int32(Add(Word(st), Word(Increment)))

\* next(), lines 22-24: the value returned for the new this.state
nextValue(st) ==
  LET w == Word(st)
      t1 == imul(Xor(w, Shr(w, 15)), Or(Word(1), w))
      t2 == Xor(Add(t1, imul(Xor(t1, Shr(t1, 7)), Or(Word(61), t1))), t1)
  IN Uint32Fraction(Xor(t2, Shr(t2, 14)))

\* new SeededRandom(seed)
SeededRandom(seed) == [seed |-> seed, state |-> seed]

Seeds == {0, 1, 42, -1, 2147483647}

\* two sources and the values each has returned: out since it was made,
\* again since its last reset()
InitRandom ==
  /\ InitLib
  /\ \E sa, sb \in Seeds :
       lib = [kind |-> "random", resets |-> 0,
              a |-> SeededRandom(sa), outA |-> <<>>, againA |-> <<>>,
              b |-> SeededRandom(sb), outB |-> <<>>]

NextA ==
  /\ lib.kind = "random"
  /\ Len(lib.againA) < MaxDraws
  /\ LET st == nextState(lib.a.state)
     IN lib' = [lib EXCEPT !.a.state = st,
                           !.outA = IF lib.resets = 0
                                    THEN Append(@, nextValue(st)) ELSE @,
                           !.againA = Append(@, nextValue(st))]
  /\ LibFrame

NextB ==
  /\ lib.kind = "random"
  /\ Len(lib.outB) < MaxDraws
  /\ LET st == nextState(lib.b.state)
     IN lib' = [lib EXCEPT !.b.state = st, !.outB = Append(@, nextValue(st))]
  /\ LibFrame

\* reset()
ResetA ==
  /\ lib.kind = "random"
  /\ lib.resets < MaxResets
  /\ lib' = [lib EXCEPT !.a.state = lib.a.seed, !.againA = <<>>,
                        !.resets = @ + 1]
  /\ LibFrame

RandomNext == NextA \/ NextB \/ ResetA

SpecRandom == InitRandom /\ [][RandomNext]_vars

\* --------------------------------------- Distribution.gaussianBounded

\* JavaScript numbers: NaN, the two infinities (v is the sign) and the
\* finite numbers, of which the integers are kept
Num(v) == [k |-> "num", v |-> v]
NaN == [k |-> "nan", v |-> 0]
PosInf == [k |-> "inf", v |-> 1]
NegInf == [k |-> "inf", v |-> -1]

sign(a) == IF a.v > 0 THEN 1 ELSE IF a.v < 0 THEN -1 ELSE 0

\* a * b
times(a, b) ==
  CASE a.k = "nan" \/ b.k = "nan" -> NaN
    [] a.k = "inf" \/ b.k = "inf" ->
         IF sign(a) * sign(b) = 0 THEN NaN
         ELSE [k |-> "inf", v |-> sign(a) * sign(b)]
    [] OTHER -> Num(a.v * b.v)

\* a + b
plus(a, b) ==
  CASE a.k = "nan" \/ b.k = "nan" -> NaN
    [] a.k = "inf" /\ b.k = "inf" -> IF a.v = b.v THEN a ELSE NaN
    [] a.k = "inf" -> a
    [] b.k = "inf" -> b
    [] OTHER -> Num(a.v + b.v)

\* a < b: false when either side is NaN
lt(a, b) ==
  /\ a.k # "nan" /\ b.k # "nan"
  /\ CASE a.k = "inf" /\ b.k = "inf" -> a.v < b.v
       [] a.k = "inf" -> a.v < 0
       [] b.k = "inf" -> b.v > 0
       [] OTHER -> a.v < b.v

\* a <= b: false when either side is NaN
le(a, b) == a.k # "nan" /\ b.k # "nan" /\ ~lt(b, a)

\* Math.min and Math.max: NaN when either argument is NaN
MathMin(a, b) ==
  IF a.k = "nan" \/ b.k = "nan" THEN NaN ELSE IF lt(b, a) THEN b ELSE a

MathMax(a, b) ==
  IF a.k = "nan" \/ b.k = "nan" THEN NaN ELSE IF lt(a, b) THEN b ELSE a

\* the values of z in gaussian(): sqrt(-2 ln u1) cos(2 pi u2) is finite
\* for u1 in (0,1)
Zs == {Num(-2), Num(-1), Num(1), Num(2)}

\* gaussian(mean, stdDev) for the draw z, line 139
gaussian(mean, stdDev, z) == plus(times(z, stdDev), mean)

\* the cap of the rejection loop, line 151
maxAttempts == 100

\* the arguments explored: bounds are numbers with min <= max
GaussArgs ==
  [mean : {NaN, PosInf, Num(0), Num(5)},
   stdDev : {NaN, PosInf, Num(0), Num(1)},
   min : {NegInf, Num(0)},
   max : {Num(2), PosInf}]

InitGauss ==
  /\ InitLib
  /\ \E args \in GaussArgs :
       lib = [kind |-> "gauss", args |-> args, attempts |-> 0,
              value |-> Num(0), done |-> FALSE, ret |-> Num(0)]

\* the loop condition of line 151 after an attempt
Rejected(value, attempts) ==
  /\ lt(value, lib.args.min) \/ lt(lib.args.max, value)
  /\ attempts < maxAttempts

\* lines 148-151: an attempt that is rejected
Reject ==
  /\ lib.kind = "gauss"
  /\ ~lib.done
  /\ \E z \in Zs :
       LET value == gaussian(lib.args.mean, lib.args.stdDev, z)
       IN /\ Rejected(value, lib.attempts + 1)
          /\ lib' = [lib EXCEPT !.value = value, !.attempts = @ + 1]
  /\ LibFrame

\* lines 148-153: the attempt that ends the loop, and the clamp
Return ==
  /\ lib.kind = "gauss"
  /\ ~lib.done
  /\ \E z \in Zs :
       LET value == gaussian(lib.args.mean, lib.args.stdDev, z)
       IN /\ ~Rejected(value, lib.attempts + 1)
          /\ lib' = [lib EXCEPT
                       !.value = value, !.attempts = @ + 1, !.done = TRUE,
                       !.ret = MathMax(lib.args.min, MathMin(lib.args.max, value))]
  /\ LibFrame

GaussNext == Reject \/ Return

SpecGauss == InitGauss /\ [][GaussNext]_vars

\* ------------------------------------------- PageActions.stayOnPage

\* Times are in seconds.  config.timing.minStay <= maxStay is checked when
\* the configuration is loaded (config.js line 192).
StayBounds == {b \in [min : 1..MaxStay, max : 1..MaxStay] : b.min <= b.max}

\* a clamp that only enforces the upper bound
clampStayUpperOnly(base, min, max) == IF max < base THEN max ELSE base

\* lines 543-546: Math.max(minStay, Math.min(maxStay, baseDuration))
clampStay(base, min, max) ==
  LET upper == IF max < base THEN max ELSE base
  IN IF min > upper THEN min ELSE upper

\* a call of stayOnPage: the bounds, and baseDuration after the profile's
\* multipliers (lines 531-540)
InitStay ==
  /\ InitLib
  /\ \E b \in StayBounds, base \in 0..(MaxStay + 1) :
       lib = [kind |-> "stay", minStay |-> b.min, maxStay |-> b.max,
              base |-> base, duration |-> 0, elapsed |-> 0, pc |-> "call",
              iterations |-> 0, recorded |-> 0,
              step |-> [action |-> "none", failed |-> FALSE, navigated |-> FALSE],
              done |-> FALSE, threw |-> FALSE, navigatedAway |-> FALSE]

\* lines 527-558 up to the first test of the loop condition
StayBegin ==
  /\ lib.kind = "stay"
  /\ lib.pc = "call"
  /\ lib' = [lib EXCEPT !.pc = "loop",
                        !.duration = clampStay(lib.base, lib.minStay, lib.maxStay)]
  /\ LibFrame

\* the loop condition of line 561 holds
StayOn == lib.kind = "stay" /\ lib.pc = "loop" /\ lib.elapsed < lib.duration

\* the time one iteration takes: every iteration ends with a sleep of at
\* least half a second (line 631), here at least one unit
StayTimes == {lib.elapsed + d : d \in 1..MaxStep}

\* one iteration that ends at line 631 with the loop still running
Iterated(action, failed, pushed, t) ==
  lib' = [lib EXCEPT !.elapsed = t, !.iterations = @ + 1,
                     !.recorded = @ + (IF pushed THEN 1 ELSE 0),
                     !.step = [action |-> action, failed |-> failed,
                               navigated |-> FALSE]]

\* cases scroll, mouse, interact and hover (lines 573-581 and 601-615): the
\* method called catches the failure of its page calls and reports it in
\* its result, which is then not pushed
StayCaught ==
  /\ StayOn
  /\ \E action \in {"scroll", "mouse", "interact", "hover"},
        failed \in BOOLEAN, did \in BOOLEAN, t \in StayTimes :
       Iterated(action, failed, did /\ ~failed, t)
  /\ LibFrame

\* case click (lines 583-599): half of the time no link is clicked;
\* clickRandomLink catches its failures; a click that navigated ends the
\* stay after dismissPopups, which catches its own failures too
StayClick ==
  /\ StayOn
  /\ \E t \in StayTimes :
       \/ \E failed \in BOOLEAN, clicked \in BOOLEAN :
            Iterated("click", failed, clicked /\ ~failed, t)
       \/ \E failed \in BOOLEAN :
            lib' = [lib EXCEPT !.elapsed = t, !.iterations = @ + 1,
                               !.recorded = @ + 1,
                               !.step = [action |-> "click", failed |-> failed,
                                         navigated |-> TRUE],
                               !.pc = "done", !.done = TRUE,
                               !.navigatedAway = TRUE]
  /\ LibFrame

\* case read (lines 617-627): after the pause, four times in ten, a small
\* scroll by this.page.evaluate, which is not inside any try block: its
\* failure leaves stayOnPage as an exception
StayRead ==
  /\ StayOn
  /\ \E t \in StayTimes :
       \/ Iterated("read", FALSE, TRUE, t)
       \/ lib' = [lib EXCEPT !.elapsed = t, !.iterations = @ + 1,
                             !.step = [action |-> "read", failed |-> TRUE,
                                       navigated |-> FALSE],
                             !.pc = "done", !.done = TRUE, !.threw = TRUE]
  /\ LibFrame

\* case wait and default (lines 629-633)
StayWait ==
  /\ StayOn
  /\ \E t \in StayTimes : Iterated("wait", FALSE, FALSE, t)
  /\ LibFrame

\* the loop condition fails, lines 636-640
StayReturn ==
  /\ lib.kind = "stay"
  /\ lib.pc = "loop"
  /\ ~(lib.elapsed < lib.duration)
  /\ lib' = [lib EXCEPT !.pc = "done", !.done = TRUE, !.navigatedAway = FALSE]
  /\ LibFrame

StayNext ==
  \/ StayBegin
  \/ StayCaught
  \/ StayClick
  \/ StayRead
  \/ StayWait
  \/ StayReturn

\* every awaited action and wait completes
SpecStay == InitStay /\ [][StayNext]_vars /\ WF_vars(StayNext)

\* ------------------------------------------- BrowserController.goto

\* the errors page.goto rejects with, and the HTTP statuses it resolves
\* with (0 stands for no response)
NavErrors == {"timeout", "dns", "aborted", "refused"}
Statuses == {0, 200, 404}

\* a delay that does not grow
backoffFlat(k) == 1000

\* line 462: the delay in ms after the k-th failed attempt
backoff(k) == IF 1000 * 2 ^ (k - 1) < 10000 THEN 1000 * 2 ^ (k - 1) ELSE 10000

\* one call goto(url) with no options, as the session and the GOTO
\* command make it: attempt is the loop variable, errors the error of
\* each failed attempt, delays the waits made, emits the events emitted
InitGoto ==
  /\ InitLib
  /\ lib = [kind |-> "goto", attempt |-> 1, pc |-> "try", errors |-> <<>>,
            delays |-> <<>>, emits |-> <<>>, result |-> "pending",
            thrown |-> "none"]

\* lines 439-455: page.goto has resolved
AttemptOk ==
  /\ lib.kind = "goto"
  /\ lib.pc = "try"
  /\ \E status \in Statuses :
       lib' = [lib EXCEPT
                 !.emits = @ \o (IF status >= 400 THEN <<"httpError">> ELSE <<>>)
                             \o <<"navigated">>,
                 !.pc = "done", !.result = "returned"]
  /\ LibFrame

\* lines 457-469: page.goto has rejected; back off, or give up
AttemptFail ==
  /\ lib.kind = "goto"
  /\ lib.pc = "try"
  /\ \E error \in NavErrors :
       IF ~LastAttempt(lib.attempt)
         THEN lib' = [lib EXCEPT !.errors = Append(@, error),
                                 !.delays = Append(@, backoff(lib.attempt)),
                                 !.pc = "backoff"]
         ELSE lib' = [lib EXCEPT !.errors = Append(@, error),
                                 !.emits = Append(@, "navigationFailed"),
                                 !.pc = "done", !.result = "threw",
                                 !.thrown = error]
  /\ LibFrame

\* line 463 and the loop increment: the timer of the backoff has fired
BackoffDone ==
  /\ lib.kind = "goto"
  /\ lib.pc = "backoff"
  /\ lib' = [lib EXCEPT !.attempt = @ + 1, !.pc = "try"]
  /\ LibFrame

GotoNext == AttemptOk \/ AttemptFail \/ BackoffDone

SpecGoto == InitGoto /\ [][GotoNext]_vars

\* ------------------------------------------------- Behavior.scrollPattern

\* Random.int(min, max), random.js lines 52-54: the integers it can return,
\* taken in steps of 50 pixels
RandomInt(min, max) == {n \in min..max : n % 50 = 0}

\* the <pageHeight, viewportHeight> pairs explored: pages taller than the
\* viewport by a little, by less than a viewport and by more than one
ScrollArgs == {<<650, 600>>, <<1000, 600>>, <<2000, 600>>}

\* lines 375-385: the amounts of the big, the small and the normal scroll
ScrollAmounts ==
  RandomInt(500, 1000) \cup RandomInt(50, 150) \cup RandomInt(150, 400)

\* lines 367-370: the call has set actions = [], currentY = 0 and maxScroll;
\* length is actions.length and top the action pushed last
InitScroll ==
  /\ InitLib
  /\ \E args \in ScrollArgs :
       lib = [kind |-> "scroll", pageHeight |-> args[1],
              viewportHeight |-> args[2], maxScroll |-> args[1] - args[2],
              scrollCount |-> 0, i |-> 0, currentY |-> 0, length |-> 0,
              top |-> "none", pc |-> "count"]

\* line 373: the number of iterations, Random.int(3, 12)
ScrollCount ==
  /\ lib.kind = "scroll"
  /\ lib.pc = "count"
  /\ \E n \in 3..12 : lib' = [lib EXCEPT !.scrollCount = n, !.pc = "loop"]
  /\ LibFrame

\* lines 375-416: one iteration of the loop; amount, direction and toTop
\* are the draws of lines 377-385, 388 and 407
ScrollIterate ==
  /\ lib.kind = "scroll"
  /\ lib.pc = "loop"
  /\ lib.i < lib.scrollCount
  /\ \E amount \in ScrollAmounts, direction \in {1, -1}, toTop \in BOOLEAN :
       LET scrollAmount == amount * direction
           target == lib.currentY + scrollAmount
           capped == IF lib.maxScroll < target THEN lib.maxScroll ELSE target
           newY == IF capped < 0 THEN 0 ELSE capped
           moved == newY # lib.currentY
           back == toTop /\ newY > lib.viewportHeight
       IN lib' = [lib EXCEPT
                    !.length = @ + (IF moved THEN 1 ELSE 0)
                                 + (IF back THEN 1 ELSE 0),
                    !.top = IF back THEN "scrollToTop"
                            ELSE IF moved THEN "scroll" ELSE @,
                    !.currentY = IF back THEN 0 ELSE newY,
                    !.i = @ + 1]
  /\ LibFrame

\* line 418: the loop has ended, the actions are returned
ScrollReturn ==
  /\ lib.kind = "scroll"
  /\ lib.pc = "loop"
  /\ lib.i >= lib.scrollCount
  /\ lib' = [lib EXCEPT !.pc = "done"]
  /\ LibFrame

ScrollNext == ScrollCount \/ ScrollIterate \/ ScrollReturn

SpecScroll == InitScroll /\ [][ScrollNext]_vars

\* ===================================================== claims

InFlight(l) == pc[l] \in {"nav", "page", "stay", "s_search", "s_stay"}
Blocked(l)  == pc[l] \in {"blocked", "s_blocked"}
StopReturned == last.op \in {"stop", "stopEnd"} /\ last.ret # "pending"

\* C1: every change of SessionState follows an edge of
\* idle -> starting -> running <-> paused -> stopping -> stopped (stop()
\* may enter stopping from any state but stopped), or moves into error from
\* a state other than stopped; stopped is entered only from stopping and is
\* never left.
ChainEdges == {<<"idle", "starting">>, <<"starting", "running">>,
               <<"running", "paused">>, <<"paused", "running">>,
               <<"stopping", "stopped">>}

EdgeOK(a, b) ==
  \/ <<a, b>> \in ChainEdges
  \/ b = "stopping" /\ a # "stopped"
  \/ b = "error" /\ a # "stopped"

C1_StateEdges ==
  [][LET path == StatePath(state, last'.emits)
     IN \A k \in 1..(Len(path) - 1) :
          path[k] # path[k + 1] => EdgeOK(path[k], path[k + 1])]_vars

\* C2: a stop() call that gets past its state guard while a loop is blocked
\* at the pause wait-point releases that wait-point: after the call no loop
\* is left awaiting an unresolved pause promise.
C2_StopReleasesPause ==
  \A l \in Loops :
    (last.op = "stop" /\ last.ret # "noop" /\ Blocked(l))
      => wait[l] # "pending"

\* C3: once stop() has been called no siteStart event is emitted.
C3_NoVisitAfterStop == hist.stopCalled => ~Emitted("siteStart")

\* C4: after a stop() call the state is never stopped while a loop is still
\* executing a navigation or a page action.
C4_StoppedAfterInFlight ==
  (hist.stopCalled /\ state = "stopped") => \A l \in Loops : ~InFlight(l)

\* C5: however many stop() calls are made, the stopped event is emitted at
\* most once, and once it has been emitted the session stays in stopped.
C5_StopIdempotent ==
  /\ hist.stopped <= 1
  /\ hist.stopped > 0 => state = "stopped"

\* C6: whenever a stop() call on a started session returns and no earlier
\* stop() call is still closing the browser, the browser acquired by
\* initialize() is no longer open.
C6_StopClosesBrowser ==
  (StopReturned /\ stopPc = "idle" /\ \E l \in Loops : pc[l] # "idle")
    => browser # "open"

\* C7: after the stopped event no step of the visit loop changes a
\* SessionStats field or emits siteComplete, siteFailed or completed.
C7_FinalStats ==
  [][(hist.stopped > 0 /\ last'.op = "loop") =>
       /\ stats' = stats
       /\ \A k \in 1..Len(last'.emits) :
            last'.emits[k] \notin {"siteComplete", "siteFailed", "completed"}]_vars

\* C8: pause() returns true exactly from running and resume() exactly from
\* paused; a call that returns false leaves SessionState, the paused flag,
\* the pause wait-point, the waiting loops and the stop flag unchanged and
\* emits no event.
C8_PauseResumeFrame ==
  [][/\ last'.op = "pause" => (last'.ret = "true" <=> state = "running")
     /\ last'.op = "resume" => (last'.ret = "true" <=> state = "paused")
     /\ (last'.op \in {"pause", "resume"} /\ last'.ret = "false") =>
          /\ UNCHANGED <<state, isPaused, pausePromise, wait, shouldStop>>
          /\ last'.emits = <<>>]_vars

\* a resume() refused while the loop is running, and a pause() refused
\* while the loop sits at the pause wait-point
C8_Witness ==
  \/ last.op = "resume" /\ last.ret = "false" /\ state = "running"
       /\ InFlight(1)
  \/ last.op = "pause" /\ last.ret = "false" /\ state = "paused"
       /\ Blocked(1)

\* C9: after the browser disconnected while the session was running, no
\* destination is started and no completed event is emitted.
C9_DisconnectStopsLoop ==
  hist.disconnected => ~Emitted("siteStart") /\ ~Emitted("completed")

\* C10: when start() has raised because its site queue came out empty, the
\* state is error, no started event was emitted and no loop was entered.
C10_EmptyQueueIsError ==
  (last.op = "start" /\ last.ret = "throws:empty")
    => /\ state = "error"
       /\ ~Emitted("started")
       /\ \A l \in Loops : pc[l] = "idle"

\* C11: when an exception leaves the loop inside start(), the state becomes
\* error, one fatal entry is added to stats.errors, an error event is
\* emitted and start() rejects; from then on that loop starts no destination.
C11_EscapeIsFatal ==
  [][\A l \in Loops :
       /\ (pc[l] # "threw" /\ pc'[l] = "threw") =>
            /\ state' = "error"
            /\ stats'.errors.fatal = stats.errors.fatal + 1
            /\ \E k \in 1..Len(last'.emits) : last'.emits[k] = "error"
            /\ last'.ret = "throws"
       /\ pc[l] = "threw" =>
            /\ pc'[l] = "threw"
            /\ \A k \in 1..Len(last'.emits) : last'.emits[k] # "siteStart"]_vars

\* the exception has just left the loop of the run
C11_Witness == pc[1] = "threw" /\ last.op = "loop" /\ last.ret = "throws"

\* C12: goto gives up on a destination only after its third failed attempt;
\* the step that gives up adds one to sitesFailed, emits exactly one
\* siteFailed, leaves sitesSuccessful and the state alone and moves the loop
\* on to the wait or the next iteration; a loop that runs to its end leaves
\* the state at stopped.
C12_NavFailureIsSiteFailure ==
  [][/\ (pc[1] = "nav" /\ last'.op = "loop" /\ last'.ret = "siteFailed") =>
          /\ attempt[1] + 1 = 3
          /\ stats'.sitesFailed = stats.sitesFailed + 1
          /\ stats'.sitesSuccessful = stats.sitesSuccessful
          /\ last'.emits = <<"siteFailed">>
          /\ state' = state
          /\ pc'[1] \in {"wait", "top"}
     /\ pc'[1] = "done" => state' = "stopped"]_vars

\* a navigation has just been given up and the loop waits for the next site
C12_Witness ==
  /\ last.op = "loop" /\ last.ret = "siteFailed"
  /\ stats.errors.navigation = 1 /\ stats.sitesFailed = 1
  /\ pc[1] = "wait"

\* C13: a run without searches and without limits that was never stopped and
\* in which no visit failed or met a CAPTCHA ends, for a queue of n
\* destinations, with sitesVisited = n, sitesSuccessful = n, sitesFailed = 0,
\* the state stopped and a success rate of "100.0%".
C13_CleanRun ==
  (/\ pc[1] = "done"
   /\ cfg.searchCount = 0 /\ cfg.maxPages = 0 /\ cfg.maxDuration = 0
   /\ ~hist.stopCalled /\ ~hist.captcha
   /\ stats.errors.visit = 0 /\ stats.errors.navigation = 0)
    => /\ stats.sitesVisited = Len(siteQueue)
       /\ stats.sitesSuccessful = Len(siteQueue)
       /\ stats.sitesFailed = 0
       /\ state = "stopped"
       /\ successRate(stats) = "100.0%"

\* a clean run over the longest queue has just completed
C13_Witness ==
  /\ pc[1] = "done" /\ last.ret = "completed"
  /\ cfg.searchCount = 0 /\ cfg.maxPages = 0 /\ cfg.maxDuration = 0
  /\ ~hist.stopCalled /\ ~hist.captcha /\ ~hist.disconnected
  /\ stats.errors.visit = 0
  /\ Len(siteQueue) = MaxSites /\ stats.sitesSuccessful = MaxSites

\* C14: a step of the visit loop that adds to sitesFailed emits siteFailed,
\* and a step that ends a visit (the loop leaves the navigation or the page
\* for the wait or the next iteration) emits siteComplete or siteFailed.
C14_VisitOutcome ==
  [][last'.op = "loop" =>
       /\ stats'.sitesFailed > stats.sitesFailed =>
            \E k \in 1..Len(last'.emits) : last'.emits[k] = "siteFailed"
       /\ (pc[1] \in {"nav", "page", "stay"} /\ pc'[1] \in {"wait", "top"}) =>
            \E k \in 1..Len(last'.emits) :
              last'.emits[k] \in {"siteComplete", "siteFailed"}]_vars

\* C15: once start() has stamped stats.startTime, no step changes
\* stats.startTime or the site queue.
C15_WriteOnce ==
  [][stats.startTime # 0 =>
       /\ stats'.startTime = stats.startTime
       /\ siteQueue' = siteQueue]_vars

\* C16: at most one start() call is inside its search/visit loop.
C16_OneLoop ==
  Cardinality({l \in Slots : pc[l] \notin {"idle", "done", "threw"}}) <= 1

\* C17: at most one navigation is in flight, counting the gotos of the visit
\* loops and the gotos of GOTO commands.
C17_OneNavigation ==
  Cardinality({l \in Slots : pc[l] = "nav"}) + remote.flying <= 1

\* C18: when the loop comes to its pre-visit check with the configured page
\* limit or duration limit reached, it starts no destination; unless it
\* stays at the pause wait-point it ends the run there: the state becomes
\* stopped, completed is emitted, no error event is emitted and no fatal
\* entry is recorded.
C18_LimitEndsRun ==
  [][(/\ last'.op = "loop"
      /\ pc[1] \in {"top", "blocked"}
      /\ idx[1] < Len(siteQueue) /\ ~shouldStop
      /\ \/ cfg.maxPages > 0 /\ stats.pagesViewed >= cfg.maxPages
         \/ cfg.maxDuration > 0 /\ elapsed' >= cfg.maxDuration) =>
       /\ \A k \in 1..Len(last'.emits) : last'.emits[k] # "siteStart"
       /\ pc'[1] \in {"blocked", "done"}
       /\ pc'[1] = "done" =>
            /\ state' = "stopped"
            /\ \E k \in 1..Len(last'.emits) : last'.emits[k] = "completed"
            /\ \A k \in 1..Len(last'.emits) : last'.emits[k] # "error"
            /\ stats'.errors.fatal = stats.errors.fatal]_vars

\* the run has just ended at the duration limit with a destination left
C18_Witness ==
  /\ last.op = "loop" /\ last.ret = "completed" /\ pc[1] = "done"
  /\ idx[1] < Len(siteQueue) /\ ~shouldStop
  /\ cfg.maxPages = 0 /\ cfg.maxDuration > 0 /\ elapsed >= cfg.maxDuration
  /\ stats.sitesVisited > 0 /\ stats.errors.fatal = 0

\* C19: every event sent to a client is of a type in its subscription set, or
\* the set holds '*'; a client with no subscription, or subscribed to
\* siteFailed only, is not sent siteComplete.
C19_OnlySubscribed ==
  \A c \in Clients :
    /\ \A k \in 1..Len(Received(c)) :
         Received(c)[k] \in clients[c].subs \/ "*" \in clients[c].subs
    /\ clients[c].subs \in {{}, {"siteFailed"}} =>
         \A k \in 1..Len(Received(c)) : Received(c)[k] # "siteComplete"

\* siteComplete is broadcast while a client subscribed to siteFailed only
\* is connected
C19_Witness ==
  /\ clients[1].conn = "open" /\ clients[1].subs = {"siteFailed"}
  /\ Emitted("siteComplete")
  /\ Received(1) = <<>>

\* C20: a connected client subscribed to '*' is sent every event the session
\* emits.
C20_StarGetsAll ==
  \A c \in Clients :
    (clients[c].conn = "open" /\ "*" \in clients[c].subs /\ last.op # "statsTimer")
      => Received(c) = EventNames(last.emits)

\* C21: after a client has sent subscribe for one of the twelve forwarded
\* event names, an open client has that name in its subscription set.
C21_Subscribable ==
  [][(last'.op = "subscribe" /\ last'.ret \in sessionEvents) =>
       \E c \in Clients :
         clients'[c].conn = "open" /\ last'.ret \in clients'[c].subs]_vars

C23_OneResponse ==
  [][/\ (Handling /\ inbox.kind = "command") =>
          Reply'.type = "response" \/ AsyncPending'
     /\ (Reply'.type = "response" /\ clients'[inbox'.client].conn = "open") =>
          /\ Handling \/ AsyncPending
          /\ ~Handling' /\ ~AsyncPending'
          /\ inbox'.kind = "command"
          /\ Len(Sent') = 1
          /\ Sent'[1].to = inbox'.client
          /\ Sent'[1].requestId = inbox'.rid
          /\ Sent'[1].command = inbox'.command
          /\ inbox'.command \notin Commands =>
               ~Sent'[1].success /\ Sent'[1].error # ""
          /\ last'.op \in {"pause", "resume"} =>
               (Sent'[1].success <=> last'.ret = "true")
     /\ Reply'.type # "response" =>
          \A k \in 1..Len(Sent') : Sent'[k].type # "response"]_vars

\* a pause command with the larger requestId has just been refused by the
\* session
C23_Witness ==
  /\ last.op = "pause" /\ last.ret = "false"
  /\ inbox.rid = MaxRequestId
  /\ Len(Sent) = 1 /\ ~Sent[1].success

\* C24: the step that handles an inbound message leaves the sender
\* registered with its subscription set unchanged, and either answers it
\* with one structured message or leaves a command handler suspended that
\* will answer later.
C24_NoCrash ==
  [][Handling =>
       /\ clients'[inbox.client] = clients[inbox.client]
       /\ Len(Sent') = 1 \/ AsyncPending']_vars

\* C25: the list getSites returns has no URL twice, every URL in it is in
\* a selected category or in the custom list and not in the exclude list,
\* it has at most maxSites entries when maxSites > 0, and with maxSites = 0
\* nothing is cut off: every collected URL that is neither excluded (in
\* any letter case) nor matched by an exclude pattern is in it.
C25_SiteList ==
  (lib.kind = "sites" /\ lib.done) =>
    LET ret == lib.ret
        o == lib.options
        named == IF "all" \in Range(lib.categories) THEN {"news", "tech"}
                 ELSE Range(lib.categories) \cap {"news", "tech"}
        offered == UNION {Range(lib.file.categories[c]) : c \in named}
                     \cup UNION {Range(v) : v \in o.custom}
        excluded == UNION {Range(v) : v \in o.exclude}
        patterns == UNION {Range(v) : v \in lib.file.excludePatterns}
    IN /\ \A i, j \in 1..Len(ret) : i # j => ret[i] # ret[j]
       /\ \A k \in 1..Len(ret) : ret[k] \in offered /\ ret[k] \notin excluded
       /\ o.maxSites > 0 => Len(ret) <= o.maxSites
       /\ o.maxSites = 0 =>
            \A u \in offered :
              (/\ \A x \in excluded : toLowerCase(x) # toLowerCase(u)
               /\ \A p \in patterns : ~test(p, u)) => u \in Range(ret)

\* the same URL is in both selected categories and in the custom list,
\* and is returned
C25_Witness ==
  /\ lib.kind = "sites" /\ lib.done
  /\ lib.categories = <<"news", "tech">>
  /\ "a.com" \in Range(lib.file.categories.news)
  /\ "a.com" \in Range(lib.file.categories.tech)
  /\ lib.options.custom = {<<"a.com">>}
  /\ lib.options.shuffle
  /\ "a.com" \in Range(lib.ret)
  /\ Len(lib.ret) = 2

\* C26: two sources made with the same seed have returned the same value
\* at every position both have reached; after reset() a source returns
\* again the values it returned from its first draw on; every value
\* returned is at least 0 and less than 1.
C26_Reproducible ==
  lib.kind = "random" =>
    /\ lib.a.seed = lib.b.seed =>
         \A k \in 1..Len(lib.outA) : k <= Len(lib.outB) => lib.outA[k] = lib.outB[k]
    /\ \A k \in 1..Len(lib.againA) : k <= Len(lib.outA) => lib.againA[k] = lib.outA[k]
    /\ \A v \in Range(lib.outA) \cup Range(lib.againA) \cup Range(lib.outB) :
         v.hi \in 0..(Half - 1) /\ v.lo \in 0..(Half - 1)

\* both sources were seeded with 42 and have drawn three times, the first
\* one before and after a reset; the first value is 2581720956 / 2^32
C26_Witness ==
  /\ lib.kind = "random"
  /\ lib.a.seed = 42 /\ lib.b.seed = 42
  /\ lib.resets = 1
  /\ Len(lib.outA) = MaxDraws /\ Len(lib.againA) = MaxDraws /\ Len(lib.outB) = MaxDraws
  /\ lib.outB[1] = [hi |-> 39393, lo |-> 61308]
  /\ lib.outB[2] # lib.outB[1]

\* C27: gaussianBounded has made at most 100 attempts when it returns, and
\* the value v it returns satisfies min <= v <= max.
C27_WithinBounds ==
  (lib.kind = "gauss" /\ lib.done) =>
    /\ lib.attempts <= maxAttempts
    /\ le(lib.args.min, lib.ret)
    /\ le(lib.ret, lib.args.max)

\* C28: while the state is paused the loop starts no visit: a step of the
\* loop taken in state paused emits no siteStart.
C28_PausedStartsNothing ==
  [][(state = "paused" /\ <<pc, idx>>' # <<pc, idx>>) =>
       \A k \in 1..Len(last'.emits) : last'.emits[k] # "siteStart"]_vars

\* C29: in every state the paused flag is set, and an unresolved pause
\* promise exists, exactly when the state is paused.
C29_PauseAgrees ==
  /\ isPaused <=> state = "paused"
  /\ pausePromise = "pending" <=> state = "paused"

\* C30: the step in which a visit finds a CAPTCHA on the page it has
\* navigated to counts the destination once in sitesFailed and not in
\* sitesSuccessful, starts neither another navigation attempt nor the stay
\* routine, leaves the state alone, and moves the loop on to the wait
\* between sites or to the next iteration.
C30_CaptchaSkips ==
  [][(pc[1] = "page" /\ last'.op = "loop" /\ last'.ret = "captcha") =>
       /\ stats'.sitesFailed = stats.sitesFailed + 1
       /\ stats'.sitesSuccessful = stats.sitesSuccessful
       /\ stats'.sitesVisited = stats.sitesVisited
       /\ attempt' = attempt
       /\ pc'[1] \in {"wait", "top"}
       /\ pc'[1] = "top" => idx'[1] = idx[1] + 1
       /\ pc'[1] = "wait" => idx'[1] = idx[1]
       /\ state' = state]_vars

\* the first destination showed a CAPTCHA and the running session has
\* started the visit of the second one
C30_Witness ==
  /\ hist.captcha
  /\ state = "running"
  /\ idx[1] = 1
  /\ stats.sitesFailed = 1 /\ stats.sitesSuccessful = 0
  /\ stats.sitesVisited = 2
  /\ last.op = "loop" /\ last.ret = "siteStart"

\* C31: the k-th siteStart event of a run carries the k-th element of the
\* site queue with current = k and total = the length of the queue, and k
\* never exceeds that length: the step that counts the k-th visit and
\* emits siteStart does so for position k of the queue.
C31_FrontToBack ==
  [][(stats'.sitesVisited # stats.sitesVisited /\ last'.op = "loop"
        /\ "siteStart" \in Range(last'.emits)) =>
       LET k == stats'.sitesVisited
           ev == siteStartPayload(1)
       IN /\ stats'.sitesVisited = stats.sitesVisited + 1
          /\ k <= Len(siteQueue)
          /\ ev.url = siteQueue[k]
          /\ ev.current = k
          /\ ev.total = Len(siteQueue)
          /\ siteQueue' = siteQueue]_vars

\* the second siteStart of a run over two destinations has been emitted
C31_Witness ==
  /\ Len(siteQueue) = 2
  /\ stats.sitesVisited = 2
  /\ currentSite = 2
  /\ last.op = "loop" /\ "siteStart" \in Range(last.emits)

\* the loop is in _performSearches
Searching(l) ==
  pc[l] \in {"s_top", "s_blocked", "s_search", "s_stay", "s_wait"}

C33_FailuresSwallowed ==
  (lib.kind = "stay" /\ lib.step.failed) => ~lib.threw

\* C34: when every action and wait completes, stayOnPage ends; its time
\* budget lies in [minStay, maxStay]; every iteration of its loop lets time
\* advance; it returns navigatedAway = true exactly when the last action
\* was a link click that navigated, and navigatedAway = false only when
\* the elapsed time has reached the budget.
C34_StayEnds ==
  /\ [](lib.kind = "stay" =>
          /\ lib.pc # "call" =>
               lib.minStay <= lib.duration /\ lib.duration <= lib.maxStay
          /\ lib.iterations <= lib.elapsed
          /\ (lib.done /\ ~lib.threw) =>
               /\ lib.navigatedAway <=>
                    (lib.step.action = "click" /\ lib.step.navigated)
               /\ ~lib.navigatedAway => lib.elapsed >= lib.duration)
  /\ [][(lib.kind = "stay" /\ lib'.iterations # lib.iterations) =>
          lib'.elapsed > lib.elapsed]_vars
  /\ <>(lib.kind = "stay" /\ lib.done)

\* a stay whose base duration was below minStay has run two iterations
\* and returned without a navigation
C34_Witness ==
  /\ lib.kind = "stay"
  /\ lib.base < lib.minStay /\ lib.duration = lib.minStay
  /\ lib.done /\ ~lib.threw /\ ~lib.navigatedAway
  /\ lib.iterations >= 2

Count(seq, e) == Cardinality({k \in 1..Len(seq) : seq[k] = e})

\* C35: goto never makes more than 3 attempts; every failed attempt but
\* the last is followed by one wait of min(1000 * 2^(k-1), 10000) ms for
\* the k-th, the last by none; it returns at the first attempt that
\* succeeds, with navigated emitted once and navigationFailed never; after
\* the third failure it has emitted navigationFailed once, navigated
\* never, and throws the error of the third attempt.
C35_GotoRetries ==
  lib.kind = "goto" =>
    /\ lib.attempt \in 1..3
    /\ Len(lib.errors) <= 3
    /\ Len(lib.delays) = (IF Len(lib.errors) = 3 THEN 2 ELSE Len(lib.errors))
    /\ \A k \in 1..Len(lib.delays) :
         lib.delays[k] = (IF k = 1 THEN 1000 ELSE IF k = 2 THEN 2000 ELSE 10000)
    /\ lib.result = "pending" =>
         /\ lib.emits = <<>>
         /\ Len(lib.errors) = (IF lib.pc = "try" THEN lib.attempt - 1
                                                 ELSE lib.attempt)
    /\ lib.result = "returned" =>
         /\ Len(lib.errors) = lib.attempt - 1
         /\ Count(lib.emits, "navigated") = 1
         /\ Count(lib.emits, "navigationFailed") = 0
    /\ lib.result = "threw" =>
         /\ Len(lib.errors) = 3
         /\ lib.emits = <<"navigationFailed">>
         /\ lib.thrown = lib.errors[3]

\* the third attempt has failed with an error other than the first two
C35_Witness ==
  /\ lib.kind = "goto"
  /\ lib.result = "threw"
  /\ lib.delays = <<1000, 2000>>
  /\ lib.errors = <<"timeout", "timeout", "dns">>
  /\ lib.thrown = "dns"


\* C36: when a client's connection closes, its entry leaves the client
\* table together with its subscription set, and no event is sent to a
\* client that is not in the table with an open socket; after every
\* heartbeat sweep the table holds no client whose socket is not open.
C36_TableHygiene ==
  /\ [](\A c \in Clients :
          /\ clients[c].conn = "none" => clients[c].subs = {}
          /\ Received(c) # <<>> => clients[c].conn = "open")
  /\ [](last.op = "heartbeat" =>
          \A c \in Clients : clients[c].conn \in {"none", "open"})
  /\ [][\A c \in Clients :
          (last'.op = "close" /\ clients'[c] # clients[c])
            => clients'[c] = NoClient]_vars

\* a sweep removed a client whose socket had left OPEN before its close
\* event was delivered
C36_Witness ==
  /\ last.op = "heartbeat"
  /\ last.ret = "deleted"
  /\ \E c \in Clients : clients[c] = NoClient


\* C37: for every page taller than its viewport, scrollPattern returns no
\* fewer than 3 and no more than 12 actions, whatever the random draws.
C37_ThreeToTwelve ==
  (lib.kind = "scroll" /\ lib.pc = "done") =>
    (lib.length >= 3 /\ lib.length <= 12)


\* C38: a status command, a stats command and a firing of the statsUpdate
\* timer leave this.stats, this.state and the site queue as they were, and
\* none of the fields getStats() derives (duration, durationFormatted,
\* successRate, state, currentSite, remainingSites) is ever a field of
\* this.stats.
TelemetryRead ==
  \/ last'.op = "statsTimer"
  \/ last'.op = "command" /\ inbox'.command \in {"status", "stats"}

C38_ReadOnly ==
  /\ [][TelemetryRead => UNCHANGED <<stats, state, siteQueue>>]_vars
  /\ [](DOMAIN stats = DOMAIN InitStats)
  /\ [](DOMAIN stats \cap {"duration", "durationFormatted", "successRate",
                           "remainingSites"} = {})

\* the timer has broadcast the statistics of a running session
C38_Witness ==
  /\ last.op = "statsTimer"
  /\ last.ret = "broadcast"
  /\ stats.startTime # 0
  /\ getStats.duration > 0


\* C39: in every reachable state sitesSuccessful + sitesFailed <=
\* sitesVisited <= the length of the site queue, and sitesVisited exceeds
\* sitesSuccessful + sitesFailed by 1 exactly while a visit is in flight
\* and by 0 otherwise, so that remainingSites of getStats() is not negative.
Visiting == \E l \in Slots : pc[l] \in {"nav", "page", "stay"}

C39_VisitCounts ==
  /\ stats.sitesSuccessful + stats.sitesFailed <= stats.sitesVisited
  /\ stats.sitesVisited <= Len(siteQueue)
  /\ stats.sitesVisited - (stats.sitesSuccessful + stats.sitesFailed)
       = (IF Visiting THEN 1 ELSE 0)
  /\ getStats.remainingSites >= 0


\* C40: once a client's unsubscribe message for an event type E has been
\* answered, the client is sent no event of type E while E stays out of its
\* subscription set, whatever else the set contains: the step that follows
\* the answer delivers no such event.  (The answer does not name E; every
\* E of Requests that is not in the set may be the one just removed.)
C40_UnsubscribeHolds ==
  [][\A c \in Clients : \A E \in Requests \ {"*"} :
       (/\ last.op = "unsubscribe"
        /\ clients[c].conn = "open"
        /\ E \notin clients[c].subs)
         => \A k \in 1..Len(Received(c)') : Received(c)'[k] # E]_vars

====
